---- MODULE Spec2Model ----
(***************************************************************************)
(* A model of mkvstreamedit.py: the media-stream merge planner             *)
(* merge_video_stream with its helpers is_prefix_matching,                 *)
(* get_absolute_file_name and get_video_stream.                            *)
(*                                                                         *)
(* Strings the code inspects character by character (file names, language  *)
(* tags) are sequences of one-character strings.  A path is the pair of    *)
(* the folder path and the file name that os.path.join put together.       *)
(***************************************************************************)
EXTENDS Integers, Sequences, FiniteSets, TLC

\* ------------------------------------------------------------------ bounds

\* Most entries of the input folder.
MaxFiles == 3
\* Most stream lines the probe's diagnostic text holds for one file.
MaxStreams == 2
\* Largest stream index a stream line reports.
MaxIdx == 1
\* Most lines of the merge log that match the muxer report pattern.
MaxSummary == 2
\* Most entries the output folder holds before the run.
MaxOld == 1

\* ----------------------------------------------------------------- strings

Dot == "."

StartsWith(s, p) == Len(p) <= Len(s) /\ SubSeq(s, 1, Len(p)) = p

EndsWith(s, p) == Len(p) <= Len(s) /\ SubSeq(s, Len(s) - Len(p) + 1, Len(s)) = p

\* str.find(c): the 1-based place of the first c in s, 0 when there is none.
Find(s, c) ==
    IF \E i \in 1..Len(s) : s[i] = c
    THEN CHOOSE i \in 1..Len(s) : s[i] = c /\ \A j \in 1..(i - 1) : s[j] # c
    ELSE 0

RECURSIVE Split(_)
\* str.split('.')
Split(s) ==
    LET i == Find(s, Dot)
    IN IF i = 0 THEN <<s>>
       ELSE <<SubSeq(s, 1, i - 1)>> \o Split(SubSeq(s, i + 1, Len(s)))

RECURSIVE Join(_)
\* '.'.join(parts)
Join(parts) ==
    IF Len(parts) = 0 THEN <<>>
    ELSE IF Len(parts) = 1 THEN parts[1]
    ELSE parts[1] \o <<Dot>> \o Join(Tail(parts))

RECURSIVE MaxPrefix(_, _)
\* The loop of is_prefix_matching that collects the common leading characters.
MaxPrefix(a, b) ==
    IF Len(a) = 0 \/ Len(b) = 0 \/ a[1] # b[1] THEN <<>>
    ELSE <<a[1]>> \o MaxPrefix(Tail(a), Tail(b))

IsPrefixMatchingStrict(str_a, str_b) ==
    IF Len(str_a) > Len(str_b) /\ StartsWith(str_a, str_b)
    THEN [match |-> TRUE, full |-> str_a,
          diff |-> SubSeq(str_a, Len(str_b) + 1, Len(str_a))]
    ELSE IF Len(str_a) < Len(str_b) /\ StartsWith(str_b, str_a)
    THEN [match |-> TRUE, full |-> str_b,
          diff |-> SubSeq(str_b, Len(str_a) + 1, Len(str_b))]
    ELSE [match |-> FALSE, full |-> <<>>, diff |-> MaxPrefix(str_a, str_b)]

IsPrefixMatchingOneWay(str_a, str_b) ==
    IF StartsWith(str_b, str_a)
    THEN [match |-> TRUE, full |-> str_b,
          diff |-> SubSeq(str_b, Len(str_a) + 1, Len(str_b))]
    ELSE [match |-> FALSE, full |-> <<>>, diff |-> MaxPrefix(str_a, str_b)]

\* is_prefix_matching(str_a, str_b): (matched, the longer one, the difference).
is_prefix_matching(str_a, str_b) ==
    IF Len(str_a) > Len(str_b) /\ StartsWith(str_a, str_b)
    THEN [match |-> TRUE, full |-> str_a,
          diff |-> SubSeq(str_a, Len(str_b) + 1, Len(str_a))]
    ELSE IF ~(Len(str_a) > Len(str_b)) /\ StartsWith(str_b, str_a)
    THEN [match |-> TRUE, full |-> str_b,
          diff |-> SubSeq(str_b, Len(str_a) + 1, Len(str_b))]
    ELSE [match |-> FALSE, full |-> <<>>, diff |-> MaxPrefix(str_a, str_b)]

\* get_absolute_file_name(file_name): the name without its extension.
get_absolute_file_name(file_name) ==
    LET result == Split(file_name)
    IN IF Len(result) <= 1 THEN file_name
       ELSE IF Len(result) = 2 /\ result[1] = <<>> THEN file_name
       ELSE IF result[Len(result)] = <<>> THEN file_name
       ELSE Join(SubSeq(result, 1, Len(result) - 1))

\* os.path.join(folder, file) and os.path.basename of such a path.
PathJoin(folder, file) == [dir |-> folder, name |-> file]

Basename(path) == path.name

\* ------------------------------------------------------------ file names

ExtMp4 == <<".", "m", "p", "4">>
ExtMkv == <<".", "m", "k", "v">>
ExtRmvb == <<".", "r", "m", "v", "b">>
ExtFlv == <<".", "f", "l", "v">>
ExtMp3 == <<".", "m", "p", "3">>
ExtFlac == <<".", "f", "l", "a", "c">>
ExtWav == <<".", "w", "a", "v">>
ExtMka == <<".", "m", "k", "a">>
ExtSrt == <<".", "s", "r", "t">>
ExtAss == <<".", "a", "s", "s">>
ExtSup == <<".", "s", "u", "p">>
ThumbsDb == <<"T", "h", "u", "m", "b", "s", ".", "d", "b">>
DesktopIni == <<"d", "e", "s", "k", "t", "o", "p", ".", "i", "n", "i">>
OutputLog == <<"o", "u", "t", "p", "u", "t", ".", "l", "o", "g">>
OutputJson == <<"o", "u", "t", "p", "u", "t", ".", "j", "s", "o", "n">>

IsVideoName(n) ==
    EndsWith(n, ExtMp4) \/ EndsWith(n, ExtMkv) \/ EndsWith(n, ExtRmvb) \/ EndsWith(n, ExtFlv)

IsAudioName(n) ==
    EndsWith(n, ExtMp3) \/ EndsWith(n, ExtFlac) \/ EndsWith(n, ExtWav) \/ EndsWith(n, ExtMka)

IsSubtitleName(n) ==
    EndsWith(n, ExtSrt) \/ EndsWith(n, ExtAss) \/ EndsWith(n, ExtSup)

\* The entries of the input folder that the file scan leaves out.
IsExcluded(e) ==
    e.isdir \/ StartsWith(e.name, <<Dot>>) \/ StartsWith(e.name, ThumbsDb)
        \/ StartsWith(e.name, DesktopIni)

\* ------------------------------------------------------- report entries

\* One line of an output_log: its level, its message, the file it names and
\* the numbers it holds.
LogLine(lvl, msg, f, n) == [lvl |-> lvl, msg |-> msg, f |-> f, n |-> n]

\* One entry of a warning_list.
Warning(msg, f, n) == [msg |-> msg, f |-> f, n |-> n]

AddWarningNoCount(r, msg, f, n) ==
    [r EXCEPT !.warning_list = Append(@, Warning(msg, f, n)),
              !.output_log = Append(@, LogLine("Warning", msg, f, n))]

\* The three statements that record a warning: count it, list it, log it.
AddWarning(r, msg, f, n) ==
    [r EXCEPT !.warning_count = @ + 1,
              !.warning_list = Append(@, Warning(msg, f, n)),
              !.output_log = Append(@, LogLine("Warning", msg, f, n))]

AddLogInFront(r, lvl, msg, f, n) ==
    [r EXCEPT !.output_log = <<LogLine(lvl, msg, f, n)>> \o @]

AddLog(r, lvl, msg, f, n) ==
    [r EXCEPT !.output_log = Append(@, LogLine(lvl, msg, f, n))]

\* ---------------------------------------------------- command arguments

\* One argument of a command line: a word, a path, "<file>:<stream>",
\* "-metadata:s:<n>" or title="<title>".
Lit(word) == [k |-> word, d |-> "", f |-> <<>>, a |-> -1, b |-> -1]

PathArg(path) == [k |-> "path", d |-> path.dir, f |-> path.name, a |-> -1, b |-> -1]

MapArg(file_index, stream_index) ==
    [k |-> "f:s", d |-> "", f |-> <<>>, a |-> file_index, b |-> stream_index]

MetadataArg(n) == [k |-> "-metadata:s:", d |-> "", f |-> <<>>, a |-> n, b |-> -1]

TitleArg(title) == [k |-> "title=", d |-> "", f |-> title, a |-> -1, b |-> -1]

\* ------------------------------------------------------------ the probe

Kinds == {"Video", "Audio", "Subtitle", "Data"}

LangNone == <<>>
LangEng == <<"(", "e", "n", "g", ")">>
LangHex == <<"[", "x", "]">>

\* The language tag as lines 152-162 normalise it, and whether it was accepted.
NormalizeLanguage(lang) ==
    LET l0 == IF lang = <<>> THEN <<"(", "u", "n", "d", ")">> ELSE lang
        bracket_index == Find(l0, "(")
        l1 == IF EndsWith(l0, <<")">>) /\ bracket_index >= 1
              THEN SubSeq(l0, bracket_index, Len(l0)) ELSE l0
        ok == StartsWith(l1, <<"(">>) /\ EndsWith(l1, <<")">>)
    IN [ok |-> ok, language |-> IF ok THEN SubSeq(l1, 2, Len(l1) - 1) ELSE lang]

\* The body of the loop over the matched stream lines (lines 142-184).
ParseStreamLine(res, ln) ==
    LET r1 == IF ln.fi # "0"
              THEN AddWarning(res, "Found unexpected stream index", <<>>, <<ln.si>>)
              ELSE res
        nl == NormalizeLanguage(ln.lang)
        r2 == IF nl.ok THEN r1
              ELSE AddWarning(r1, "Found unexpected language code", ln.lang, <<>>)
        r3 == IF ln.type \notin {"Video", "Audio", "Subtitle"}
              THEN AddWarning(r2, "Found unexpected stream type", <<>>, <<ln.si>>)
              ELSE r2
    IN [r3 EXCEPT !.stream_info = Append(@, [index |-> ln.si, type |-> ln.type,
                                             codec |-> ln.codec,
                                             language |-> nl.language]),
                  !.output_log = Append(@, LogLine("Info", "Stream", <<>>, <<ln.si>>))]

RECURSIVE ParseStreamLines(_, _)
ParseStreamLines(res, lines) ==
    IF Len(lines) = 0 THEN res
    ELSE ParseStreamLines(ParseStreamLine(res, Head(lines)), Tail(lines))

ProbeSuccessByExitCode(r) ==
    [r EXCEPT !.is_success = (r.ffmpeg_exit_code \in {0, 1})]

\* Line 207: the probe's success flag as the last statement sets it.
ProbeSuccess(r) == [r EXCEPT !.is_success = TRUE]

ProbeNoStreamCheckOnSuccess(r, name) ==
    IF Len(r.ffmpeg_log) = 0 /\ r.ffmpeg_exit_code \in {0, 1}
    THEN AddWarning(r, "No stream found", name, <<>>) ELSE r

\* Lines 200-205: the warning for a diagnostic text without any stream line.
ProbeNoStreamCheck(r, name) ==
    IF Len(r.ffmpeg_log) = 0 THEN AddWarning(r, "No stream found", name, <<>>) ELSE r

\* Lines 114-136: the inspection command has run (or failed to start).
ProbeExecute(r, name, o) ==
    IF o.spawn = "ok"
    THEN LET r1 == [r EXCEPT !.ffmpeg_log = o.lines, !.ffmpeg_exit_code = o.rc]
         IN IF o.rc = 0 \/ o.rc = 1
            THEN AddLog(r1, "Info", "FFmpeg process exited with code", <<>>, <<o.rc>>)
            ELSE AddWarning(r1, "FFmpeg process terminated with code", <<>>, <<o.rc>>)
    ELSE [AddWarning(r, "Caught Exception when trying to read metadata", name, <<>>)
            EXCEPT !.exception = Append(@, "probe spawn")]

\* get_video_stream(video_file_path) for a path whose file exists (or not),
\* given what the inspection command does: o.spawn, o.rc and o.lines, the
\* matches of the stream pattern in its output in the order of the text.
get_video_stream(exists, isfile, name, o) ==
    LET result == [is_success |-> FALSE, warning_count |-> 0, warning_list |-> <<>>,
                   output_log |-> <<>>, ffmpeg_log |-> <<>>, ffmpeg_exit_code |-> -1,
                   cmd_args |-> <<>>, exception |-> <<>>, stream_info |-> <<>>]
    IN IF ~exists
       THEN AddLog(result, "Error", "File not found", name, <<>>)
       ELSE IF ~isfile
       THEN AddLog(result, "Error", "is not a file", name, <<>>)
       ELSE LET r0 == [result EXCEPT !.cmd_args = <<Lit("ffmpeg"), Lit("-i"),
                                                      PathArg(PathJoin("", name))>>]
                r1 == AddLog(AddLog(r0, "Info", "Reading the metadata of", name, <<>>),
                             "Info", "Executing", name, <<>>)
                r2 == ProbeExecute(r1, name, o)
                r3 == ParseStreamLines(r2, r2.ffmpeg_log)
                r4 == ProbeNoStreamCheck(r3, name)
            IN ProbeSuccess(r4)

\* ------------------------------------------------------------- the state

VARIABLES
    video_folder_path, output_folder_path,   \* the two folder arguments
    encoding_sub, disable_ffmpeg_merge, write_ffmpeg_log,
    save_log_file, save_json_file,           \* the option arguments
    fs,             \* the file system: folder path -> its kind and its entries
    probe_of,       \* file name -> what the inspection command does on that file
    merge_of,       \* video file name -> what the merge command does for its task
    pc,             \* the place of the run in merge_video_stream
    result,         \* the report
    has_fatal_error,
    folder_files, video_files, audio_files, subtitle_files, files_use_counter,
    task_id,
    video_index,    \* the place of the loop "for video_file in video_files"
    task,           \* the task of the current video
    loc,            \* the other locals of the loop body
    spawned,        \* how many probe and merge processes were started
    removed,        \* the paths given to os.remove
    saved,          \* what was written to output.log and output.json
    arg_a, arg_b,   \* the arguments of a direct call of is_prefix_matching
    returned        \* what that call returned

params == <<video_folder_path, output_folder_path, encoding_sub, disable_ffmpeg_merge,
            write_ffmpeg_log, save_log_file, save_json_file>>

world == <<probe_of, merge_of>>

call == <<arg_a, arg_b, returned>>

scan == <<folder_files, video_files, audio_files, subtitle_files>>

vars == <<params, world, fs, pc, result, has_fatal_error, scan, files_use_counter,
          task_id, video_index, task, loc, spawned, removed, saved, call>>

\* ------------------------------------------------------- the file system

Entry(name, isdir) == [name |-> name, isdir |-> isdir]

MissingDir(creatable) == [kind |-> "missing", creatable |-> creatable, entries |-> <<>>]

NotADir == [kind |-> "file", creatable |-> FALSE, entries |-> <<>>]

Dir(entries) == [kind |-> "dir", creatable |-> FALSE, entries |-> entries]

\* os.path.exists and os.path.isdir of a folder path, os.listdir of a folder
PathExists(f, folder) == f[folder].kind # "missing"

PathIsDir(f, folder) == f[folder].kind = "dir"

ListDir(f, folder) == [i \in 1..Len(f[folder].entries) |-> f[folder].entries[i].name]

\* os.path.exists of a file path
FileExists(f, path) ==
    /\ f[path.dir].kind = "dir"
    /\ \E i \in 1..Len(f[path.dir].entries) : f[path.dir].entries[i].name = path.name

EntryIsDir(f, path) ==
    \E i \in 1..Len(f[path.dir].entries) :
        f[path.dir].entries[i].name = path.name /\ f[path.dir].entries[i].isdir

RECURSIVE Without(_, _)
Without(entries, name) ==
    IF Len(entries) = 0 THEN <<>>
    ELSE IF Head(entries).name = name THEN Without(Tail(entries), name)
    ELSE <<Head(entries)>> \o Without(Tail(entries), name)

\* os.remove(path)
RemoveFile(f, path) ==
    [f EXCEPT ![path.dir].entries = Without(@, path.name)]

\* A file created or truncated and written at path.
WriteFile(f, path) ==
    IF FileExists(f, path) THEN f
    ELSE [f EXCEPT ![path.dir].entries = Append(@, Entry(path.name, FALSE))]

\* ------------------------------------------------- merge_video_stream

EmptyReport ==
    [task_count |-> 0, success_count |-> 0, failed_count |-> 0, warning_count |-> 0,
     warning_list |-> <<>>, output_log |-> <<>>, exception |-> <<>>, task |-> <<>>]

NoTask ==
    [task_id |-> 0, is_success |-> FALSE, ffmpeg_log |-> [text |-> "", matches |-> 0],
     ffmpeg_exit_code |-> -1,
     cmd_args |-> <<>>, input_files |-> <<>>]

NoLocals ==
    [input_file_index |-> 0, input_stream_index |-> 0,
     video_stream |-> <<>>, audio_stream |-> <<>>, subtitle_stream |-> <<>>,
     other_stream |-> <<>>, cmd_input_args |-> <<>>, cmd_map_args |-> <<>>,
     cmd_metadata_args |-> <<>>, cmd_disposition_args |-> <<>>,
     output_file |-> PathJoin("", <<>>)]

\* Lines 280-294: the input folder must exist and be a folder.
CheckInputFolder(st) ==
    LET s1 == IF ~PathExists(st.fs, video_folder_path)
              THEN [st EXCEPT !.result = AddWarning(@, "Input folder not found", <<>>, <<>>),
                              !.fatal = TRUE]
              ELSE st
    IN IF ~s1.fatal /\ ~PathIsDir(s1.fs, video_folder_path)
       THEN [s1 EXCEPT !.result = AddWarning(@, "Input path is not a folder", <<>>, <<>>),
                       !.fatal = TRUE]
       ELSE s1

\* Lines 298-326: the output folder is created when missing, must be a folder,
\* and a warning tells when it already holds something.
CheckOutputFolderBody(st) ==
    LET s1 == IF ~st.fatal /\ ~PathExists(st.fs, output_folder_path)
              THEN IF st.fs[output_folder_path].creatable
                   THEN [st EXCEPT !.fs[output_folder_path] = Dir(<<>>),
                                   !.result = AddWarning(@, "Output folder not found, created it",
                                                         <<>>, <<>>)]
                   ELSE [st EXCEPT !.result =
                                       [AddWarning(@, "Failed to create output folder", <<>>, <<>>)
                                          EXCEPT !.exception = Append(@, "makedirs")],
                                   !.fatal = TRUE]
              ELSE st
        s2 == IF ~s1.fatal /\ ~PathIsDir(s1.fs, output_folder_path)
              THEN [s1 EXCEPT !.result = AddWarning(@, "Output path is not a folder", <<>>, <<>>),
                              !.fatal = TRUE]
              ELSE s1
    IN IF ~s2.fatal /\ Len(ListDir(s2.fs, output_folder_path)) > 0
       THEN [s2 EXCEPT !.result = AddWarning(@, "Output folder is not empty", <<>>, <<>>)]
       ELSE s2

CheckOutputFolderAlways(st) == CheckOutputFolderBody(st)

\* Lines 296-297: the output folder is not looked at when the merge is disabled.
CheckOutputFolder(st) ==
    IF disable_ffmpeg_merge = FALSE THEN CheckOutputFolderBody(st) ELSE st

\* Lines 268-326.
Validate ==
    /\ pc = "start"
    /\ LET st == CheckOutputFolder(CheckInputFolder(
                     [result |-> EmptyReport, fatal |-> FALSE, fs |-> fs]))
       IN /\ result' = st.result
          /\ has_fatal_error' = st.fatal
          /\ fs' = st.fs
    /\ pc' = "discover"
    /\ UNCHANGED <<call, params, world, scan, files_use_counter, task_id, video_index, task,
                   loc, spawned, removed, saved>>

RECURSIVE LogExcluded(_, _)
\* Lines 336-340: one log line for each entry that the scan leaves out.
LogExcluded(r, entries) ==
    IF Len(entries) = 0 THEN r
    ELSE LogExcluded(IF IsExcluded(Head(entries))
                     THEN AddLog(r, "Info", "Exclude", Head(entries).name, <<>>)
                     ELSE r,
                     Tail(entries))

RECURSIVE Names(_)
Names(entries) ==
    IF Len(entries) = 0 THEN <<>> ELSE <<Head(entries).name>> \o Names(Tail(entries))

RECURSIVE Paths(_, _)
Paths(folder, names) ==
    IF Len(names) = 0 THEN <<>>
    ELSE <<PathJoin(folder, Head(names))>> \o Paths(folder, Tail(names))

\* Line 341: the entries that are files to work with.
KeptFiles(entries) == Names(SelectSeq(entries, LAMBDA e : ~IsExcluded(e)))

\* Lines 328-346.
Discover ==
    /\ pc = "discover"
    /\ IF has_fatal_error = FALSE
       THEN LET entries == fs[video_folder_path].entries
                kept == KeptFiles(entries)
            IN /\ result' = LogExcluded(result, entries)
               /\ folder_files' = kept
               /\ video_files' = Paths(video_folder_path, SelectSeq(kept, IsVideoName))
               /\ audio_files' = Paths(video_folder_path, SelectSeq(kept, IsAudioName))
               /\ subtitle_files' = Paths(video_folder_path, SelectSeq(kept, IsSubtitleName))
               /\ files_use_counter' = [i \in 1..Len(kept) |-> 0]
       ELSE /\ UNCHANGED <<result, scan>>
            /\ files_use_counter' = <<>>
    /\ task_id' = 0
    /\ video_index' = 1
    /\ pc' = "loop"
    /\ UNCHANGED <<call, params, world, fs, has_fatal_error, task, loc, spawned, removed, saved>>

\* ------------------------------------------------------ the input files

CountUseAll(counter, name) == [i \in DOMAIN counter |-> counter[i] + 1]

\* Lines 393-395: the use counters of the entries named like the file.
CountUse(counter, name) ==
    [i \in DOMAIN counter |->
        IF folder_files[i] = name THEN counter[i] + 1 ELSE counter[i]]

\* Lines 401-404: what a probe reported goes into the report.
MergeProbe(r, md) ==
    [r EXCEPT !.warning_count = @ + md.warning_count,
              !.warning_list = @ \o md.warning_list,
              !.output_log = @ \o md.output_log,
              !.exception = @ \o md.exception]

\* Lines 384-408 (438-471 for an audio file, 502-527 for a subtitle file): the
\* file's use is counted, the file is logged as an input, and what the probe
\* reported about it goes into the report and into its input_file record.
StartInputFile(st, file_path, md) ==
    [st EXCEPT !.counter = CountUse(@, Basename(file_path)),
               !.result = MergeProbe(AddLog(@, "Info", "Input file", Basename(file_path),
                                            <<st.loc.input_file_index>>), md),
               !.input_file = [index |-> st.loc.input_file_index,
                               file_path |-> file_path,
                               ffmpeg_log |-> md.ffmpeg_log,
                               ffmpeg_exit_code |-> md.ffmpeg_exit_code,
                               is_success |-> md.is_success,
                               cmd_args |-> md.cmd_args,
                               stream_info |-> <<>>],
               !.subtitle_stream_count = 0]

\* Lines 410-417: the stream record of the input file, no output index yet.
AddStreamRecord(st, info) ==
    [st EXCEPT !.input_file.stream_info =
                   Append(@, [index |-> info.index, type |-> info.type,
                              codec |-> info.codec, language |-> info.language,
                              output_index |-> -1])]

\* Lines 418-429 (472-493, 537-564): the stream goes to the list of its type,
\* with a warning for a type that the kind of file should not hold.
ListStream(st, info, host, ref) ==
    IF info.type = "Video"
    THEN [st EXCEPT !.loc.video_stream = Append(@, ref),
                    !.result = IF host \in {"audio", "subtitle"}
                               THEN AddWarning(@, "Found unexpected video stream in "
                                                  \o host \o " file",
                                               Basename(st.input_file.file_path),
                                               <<info.index>>)
                               ELSE @]
    ELSE IF info.type = "Audio"
    THEN [st EXCEPT !.loc.audio_stream = Append(@, ref),
                    !.result = IF host = "subtitle"
                               THEN AddWarning(@, "Found unexpected audio stream in "
                                                  \o host \o " file",
                                               Basename(st.input_file.file_path),
                                               <<info.index>>)
                               ELSE @]
    ELSE IF info.type = "Subtitle"
    THEN [st EXCEPT !.loc.subtitle_stream = Append(@, ref),
                    !.subtitle_stream_count = @ + 1]
    ELSE [st EXCEPT !.loc.other_stream = Append(@, ref),
                    !.result = IF host \in {"audio", "subtitle"}
                               THEN AddWarning(@, "Found unexpected stream in "
                                                  \o host \o " file",
                                               Basename(st.input_file.file_path),
                                               <<info.index>>)
                               ELSE @]

\* The body of the loop over the streams of one input file (lines 409-429 for
\* the video file, 463-493 for an audio file, 528-564 for a subtitle file).
BucketStream(st, info, host) ==
    ListStream(AddStreamRecord(st, info), info, host,
               [f |-> st.loc.input_file_index, s |-> info.index])

RECURSIVE BucketStreams(_, _, _)
BucketStreams(st, infos, host) ==
    IF Len(infos) = 0 THEN st
    ELSE BucketStreams(BucketStream(st, Head(infos), host), Tail(infos), host)

\* Lines 430-432 (494-496, 565-573): a subtitle file with several subtitle
\* streams is warned about, and the file joins the inputs of the task.
FinishInputFile(st, host) ==
    [st EXCEPT !.result = IF host = "subtitle" /\ st.subtitle_stream_count > 1
                          THEN AddWarning(@, "Found subtitle streams in subtitle file",
                                          Basename(st.input_file.file_path),
                                          <<st.subtitle_stream_count>>)
                          ELSE @,
               !.task.input_files = Append(@, st.input_file),
               !.loc.cmd_input_args =
                   @ \o <<Lit("-i"), PathArg(st.input_file.file_path)>>,
               !.loc.input_file_index = @ + 1]

\* The probe of line 400 (459, 524) starts a process when the path is a file.
CountProbe(st, file_path) ==
    [st EXCEPT !.probes = IF FileExists(st.fs, file_path) /\ ~EntryIsDir(st.fs, file_path)
                          THEN @ + 1 ELSE @]

\* One file becomes an input of the task, given what its probe returned.
AddProbedFile(st, file_path, host, md) ==
    FinishInputFile(
        BucketStreams(StartInputFile(CountProbe(st, file_path), file_path, md),
                      md.stream_info, host),
        host)

\* One file becomes an input of the task (lines 381-432 for the video file,
\* 438-496 for a matched audio file, 502-573 for a matched subtitle file).
AddInputFile(st, file_path, host) ==
    AddProbedFile(st, file_path, host,
                  get_video_stream(FileExists(st.fs, file_path),
                                   ~EntryIsDir(st.fs, file_path),
                                   Basename(file_path), probe_of[Basename(file_path)]))

\* The input_file record before its file is known.
NoInputFile ==
    [index |-> -1, file_path |-> PathJoin("", <<>>), ffmpeg_log |-> <<>>,
     ffmpeg_exit_code |-> -1, is_success |-> FALSE, cmd_args |-> <<>>,
     stream_info |-> <<>>]

\* The state that the steps of one task work on.
TaskState ==
    [result |-> result, task |-> task, loc |-> loc, counter |-> files_use_counter,
     probes |-> spawned.probe, fs |-> fs, input_file |-> NoInputFile,
     subtitle_stream_count |-> 0]

\* Lines 436-437 and 500-501: does the companion file go with the video?
IsCompanion(video_file, other_file) ==
    is_prefix_matching(get_absolute_file_name(Basename(video_file)),
                       get_absolute_file_name(Basename(other_file))).match

RECURSIVE AddCompanionsReversed(_, _, _, _)
AddCompanionsReversed(st, video_file, files, host) ==
    IF Len(files) = 0 THEN st
    ELSE LET rest == AddCompanionsReversed(st, video_file, Tail(files), host)
         IN IF IsCompanion(video_file, Head(files))
            THEN AddInputFile(rest, Head(files), host)
            ELSE rest

RECURSIVE AddCompanions(_, _, _, _)
\* The loops over audio_files (lines 435-496) and subtitle_files (499-573).
AddCompanions(st, video_file, files, host) ==
    IF Len(files) = 0 THEN st
    ELSE AddCompanions(IF IsCompanion(video_file, Head(files))
                       THEN AddInputFile(st, Head(files), host)
                       ELSE st,
                       video_file, Tail(files), host)

\* Lines 350-432: the next video starts a task and is its first input.
ProcessVideoFile ==
    /\ pc = "loop"
    /\ video_index <= Len(video_files)
    /\ has_fatal_error = FALSE
    /\ LET video_file == video_files[video_index]
           t == [NoTask EXCEPT !.task_id = task_id + 1, !.cmd_args = <<Lit("ffmpeg")>>]
           r == AddLog(result, "Info", "Processing task", <<>>,
                       <<task_id + 1, Len(video_files)>>)
           st == AddInputFile([TaskState EXCEPT !.result = r, !.task = t, !.loc = NoLocals],
                              video_file, "video")
       IN /\ task_id' = task_id + 1
          /\ result' = st.result
          /\ task' = st.task
          /\ loc' = st.loc
          /\ files_use_counter' = st.counter
          /\ spawned' = [spawned EXCEPT !.probe = st.probes]
    /\ pc' = "audio"
    /\ UNCHANGED <<call, params, world, fs, has_fatal_error, scan, video_index, removed, saved>>

\* Lines 434-496.
ProcessAudioFiles ==
    /\ pc = "audio"
    /\ LET st == AddCompanions(TaskState, video_files[video_index], audio_files, "audio")
       IN /\ result' = st.result
          /\ task' = st.task
          /\ loc' = st.loc
          /\ files_use_counter' = st.counter
          /\ spawned' = [spawned EXCEPT !.probe = st.probes]
    /\ pc' = "subtitle"
    /\ UNCHANGED <<call, params, world, fs, has_fatal_error, scan, task_id, video_index,
                   removed, saved>>

\* Lines 498-573.
ProcessSubtitleFiles ==
    /\ pc = "subtitle"
    /\ LET st == AddCompanions(TaskState, video_files[video_index], subtitle_files,
                               "subtitle")
       IN /\ result' = st.result
          /\ task' = st.task
          /\ loc' = st.loc
          /\ files_use_counter' = st.counter
          /\ spawned' = [spawned EXCEPT !.probe = st.probes]
    /\ pc' = "map"
    /\ UNCHANGED <<call, params, world, fs, has_fatal_error, scan, task_id, video_index,
                   removed, saved>>

\* ---------------------------------------------------- the stream mapping

\* Lines 575-592: the warnings about the video streams and the companions.
PolicyWarnings(r, l, video_file) ==
    LET name == Basename(video_file)
        r1 == IF Len(l.video_stream) > 1
              THEN AddWarning(r, "Merge video streams into one file", <<>>,
                              <<Len(l.video_stream)>>)
              ELSE r
        r2 == IF Len(l.video_stream) = 0
              THEN AddWarning(r1, "No video stream found", name, <<>>)
              ELSE r1
    IN IF l.input_file_index <= 1
       THEN AddWarning(r2, "No matching file found", name, <<>>)
       ELSE r2

StripNothing(metadata_title) == metadata_title

\* Lines 616-617: a leading dot of a longer title is dropped.
StripLeadingDot(metadata_title) ==
    IF Len(metadata_title) > 1 /\ metadata_title[1] = Dot
    THEN Tail(metadata_title)
    ELSE metadata_title

\* str.split('.')[-1]
LastPart(parts) == parts[Len(parts)]

\* Lines 614-617: the title of a subtitle stream of a subtitle file.
SubtitleTitle(video_file, file_path) ==
    StripLeadingDot(
        is_prefix_matching(get_absolute_file_name(Basename(video_file)),
                           get_absolute_file_name(Basename(file_path))).diff
            \o <<Dot>> \o LastPart(Split(Basename(file_path))))

\* Lines 597, 604, 611, 635: the stream record that gets the output index is
\* stream_info[<stream index>] of the file (a Python list counts from 0).
StreamRecordPlace(t, ref) == ref.s + 1

\* Lines 596, 603, 610, 634: the -map argument of the stream.
AddMapArgs(m, ref) ==
    [m EXCEPT !.loc.cmd_map_args = @ \o <<Lit("-map"), MapArg(ref.f, ref.s)>>]

\* Lines 597, 604, 611, 635: the output index goes into the stream record.
SetOutputIndex(m, ref) ==
    [m EXCEPT !.task.input_files[ref.f + 1].stream_info[StreamRecordPlace(m.task, ref)]
                  .output_index = m.loc.input_stream_index]

\* Lines 618-624: the warning for a title that is empty or a lone dot, and
\* the two metadata arguments.
AddTitle(m, ref, title) ==
    [m EXCEPT !.result = IF Len(title) = 0 \/ title = <<Dot>>
                         THEN AddWarning(@, "Subtitle file has no valid title",
                                         Basename(m.task.input_files[ref.f + 1].file_path),
                                         <<>>)
                         ELSE @,
              !.loc.cmd_metadata_args =
                  @ \o <<MetadataArg(m.loc.input_stream_index), TitleArg(title)>>]

\* Lines 598, 605, 625, 629, 636 and 601, 608, 632, 639: the log line of the
\* mapping, and the next output index.
LogMapping(m, ref, type, i, title) ==
    [m EXCEPT !.result = AddLog(@, "Info", "Stream -> Stream " \o type, title,
                                <<ref.f, ref.s, m.loc.input_stream_index, i>>),
              !.loc.input_stream_index = @ + 1]

\* Lines 612-625: a subtitle stream of a subtitle file gets a title.
MapTitledStream(m, ref, type, i, title) ==
    LogMapping(AddTitle(m, ref, title), ref, type, i, title)

IsTitledAnySubtitle(m, ref, type) == type = "Subtitle"

\* Line 613: is the stream's file one of the subtitle files?
IsTitled(m, ref, type) ==
    /\ type = "Subtitle"
    /\ \E j \in 1..Len(subtitle_files) :
           subtitle_files[j] = m.task.input_files[ref.f + 1].file_path

\* The body of the four mapping loops (lines 595-601, 602-608, 609-632 and
\* 633-639) for entry i of the list of one type.  The list index of line 597
\* raises IndexError when the file has no stream record at that place.
MapStream(m, ref, type, i, video_file) ==
    IF StreamRecordPlace(m.task, ref) > Len(m.task.input_files[ref.f + 1].stream_info)
    THEN [AddMapArgs(m, ref) EXCEPT !.raised = TRUE]
    ELSE IF IsTitled(m, ref, type)
    THEN MapTitledStream(SetOutputIndex(AddMapArgs(m, ref), ref), ref, type, i,
                         SubtitleTitle(video_file,
                                       m.task.input_files[ref.f + 1].file_path))
    ELSE LogMapping(SetOutputIndex(AddMapArgs(m, ref), ref), ref, type, i, <<>>)

RECURSIVE MapStreamList(_, _, _, _, _)
MapStreamList(m, refs, type, i, video_file) ==
    IF Len(refs) = 0 \/ m.raised THEN m
    ELSE MapStreamList(MapStream(m, Head(refs), type, i, video_file),
                       Tail(refs), type, i + 1, video_file)

\* Lines 594-639: the four loops, video, audio, subtitle, other, in this order.
CreateStreamMapping(m, video_file) ==
    LET m1 == MapStreamList(m, m.loc.video_stream, "Video", 0, video_file)
        m2 == MapStreamList(m1, m.loc.audio_stream, "Audio", 0, video_file)
        m3 == MapStreamList(m2, m.loc.subtitle_stream, "Subtitle", 0, video_file)
    IN MapStreamList(m3, m.loc.other_stream, "Other", 0, video_file)

\* Lines 575-639.  An IndexError of the mapping leaves merge_video_stream.
MapStreams ==
    /\ pc = "map"
    /\ LET video_file == video_files[video_index]
           m == CreateStreamMapping(
                    [result |-> PolicyWarnings(result, loc, video_file), task |-> task,
                     loc |-> loc, raised |-> FALSE],
                    video_file)
       IN /\ result' = m.result
          /\ task' = m.task
          /\ loc' = m.loc
          /\ pc' = IF m.raised THEN "raised" ELSE "build"
    /\ UNCHANGED <<call, params, world, fs, has_fatal_error, scan, files_use_counter, task_id,
                   video_index, spawned, removed, saved>>

\* ------------------------------------------------ command and execution

\* Line 654: the output file of the task of a video.
OutputFile(video_file) ==
    PathJoin(output_folder_path, get_absolute_file_name(Basename(video_file)) \o ExtMkv)

CodecArgsSwapped ==
    IF encoding_sub
    THEN <<Lit("-c"), Lit("copy")>>
    ELSE <<Lit("-c:v"), Lit("copy"), Lit("-c:a"), Lit("copy")>>

\* Lines 650-653: the codec arguments.
CodecArgs ==
    IF encoding_sub
    THEN <<Lit("-c:v"), Lit("copy"), Lit("-c:a"), Lit("copy")>>
    ELSE <<Lit("-c"), Lit("copy")>>

DispositionArgsAlways(l) ==
    <<Lit("-disposition:a:0"), Lit("default"), Lit("-disposition:s:0"), Lit("default")>>

\* Lines 642-645: the disposition arguments.
DispositionArgs(l) ==
    (IF Len(l.audio_stream) > 0 THEN <<Lit("-disposition:a:0"), Lit("default")>> ELSE <<>>)
    \o (IF Len(l.subtitle_stream) > 0
        THEN <<Lit("-disposition:s:0"), Lit("default")>> ELSE <<>>)

CommandArgsShortWhenDisabled(t, l, output_file) ==
    IF disable_ffmpeg_merge
    THEN t.cmd_args \o l.cmd_input_args \o l.cmd_map_args \o CodecArgs
             \o <<PathArg(output_file)>>
    ELSE t.cmd_args \o l.cmd_input_args \o l.cmd_map_args \o l.cmd_metadata_args
             \o l.cmd_disposition_args \o CodecArgs \o <<PathArg(output_file)>>

\* Lines 646-655: the argument list of the merge command.
CommandArgs(t, l, output_file) ==
    t.cmd_args \o l.cmd_input_args \o l.cmd_map_args \o l.cmd_metadata_args
        \o l.cmd_disposition_args \o CodecArgs \o <<PathArg(output_file)>>

OverwriteOutputAlways(output_file) == FileExists(fs, output_file)

\* Line 657: is there an output file to remove before the merge?
OverwriteOutput(output_file) ==
    FileExists(fs, output_file) /\ disable_ffmpeg_merge = FALSE

\* Lines 641-664: the command is put together and an output file that is
\* already there is removed, unless the merge is disabled.
BuildCommand ==
    /\ pc = "build"
    /\ LET output_file == OutputFile(video_files[video_index])
           l == [loc EXCEPT !.cmd_disposition_args = DispositionArgs(loc),
                            !.output_file = output_file]
       IN /\ loc' = l
          /\ task' = [task EXCEPT !.cmd_args = CommandArgs(task, l, output_file)]
          /\ IF OverwriteOutput(output_file)
             THEN /\ result' = AddWarning(result,
                                          "Output file already exists, will be overwritten",
                                          output_file.name, <<>>)
                  /\ fs' = RemoveFile(fs, output_file)
                  /\ removed' = removed \cup {output_file}
             ELSE UNCHANGED <<result, fs, removed>>
    /\ pc' = "execute"
    /\ UNCHANGED <<call, params, world, has_fatal_error, scan, files_use_counter, task_id,
                   video_index, spawned, saved>>

CountFailedAsSuccess(r) == [r EXCEPT !.task_count = @ + 1, !.success_count = @ + 1]

CountFailedOnly(r) == [r EXCEPT !.failed_count = @ + 1]

\* Lines 673-674 and 722-723: a task that succeeded is counted.
CountSuccess(r) == [r EXCEPT !.task_count = @ + 1, !.success_count = @ + 1]

\* Lines 731-732 and 740-741: a task that failed is counted.
CountFailed(r) == [r EXCEPT !.task_count = @ + 1, !.failed_count = @ + 1]

RECURSIVE LogReportLines(_, _)
\* Lines 694-699: the lines of the merge log that match the report pattern.
LogReportLines(r, n) ==
    IF n = 0 THEN r
    ELSE LogReportLines(IF write_ffmpeg_log = FALSE
                        THEN AddLog(r, "Info", "FFmpeg: report line", <<>>, <<>>)
                        ELSE r,
                        n - 1)

ReportLineWarningsAnyCode(r, n, returncode) ==
    IF n > 1
    THEN AddWarning(r, "FFmpeg may have reported warnings", <<>>, <<n - 1>>)
    ELSE IF n < 1
    THEN AddWarning(r, "Unable to find FFmpeg output summary", <<>>, <<>>)
    ELSE r

\* Lines 700-712: the warnings drawn from the number of report lines.
ReportLineWarnings(r, n, returncode) ==
    LET r1 == IF n > 1 /\ returncode = 0
              THEN AddWarning(r, "FFmpeg may have reported warnings", <<>>, <<n - 1>>)
              ELSE r
    IN IF n < 1 /\ returncode = 0
       THEN AddWarning(r1, "Unable to find FFmpeg output summary", <<>>, <<>>)
       ELSE r1

\* Lines 667-678: the merge is disabled.
DryRun(r, t, l) ==
    LET r1 == AddLog(AddLog(r, "Info", "Merge files into", l.output_file.name,
                            <<l.input_file_index>>),
                     "Info", "Command", <<>>, <<>>)
        t1 == [t EXCEPT !.ffmpeg_log.text = @ \o "FFmpeg process is disabled",
                        !.ffmpeg_exit_code = 0,
                        !.is_success = TRUE]
    IN [CountSuccess(r1) EXCEPT !.task = Append(@, t1)]

\* Lines 680-746: the merge command is run; o says what it does.
LiveRun(r, t, l, o) ==
    LET r1 == AddLog(AddLog(r, "Info", "Merging files into", l.output_file.name,
                            <<l.input_file_index>>),
                     "Info", "Executing", <<>>, <<>>)
    IN IF o.spawn = "ok"
       THEN LET t1 == [t EXCEPT !.ffmpeg_log = [text |-> "stdout stderr", matches |-> o.n]]
                r2 == IF write_ffmpeg_log
                      THEN AddLog(r1, "Raw", "ffmpeg_log", <<>>, <<o.n>>) ELSE r1
                t2 == [t1 EXCEPT !.ffmpeg_exit_code = o.rc]
                r3 == ReportLineWarnings(LogReportLines(r2, o.n), o.n, o.rc)
            IN IF o.rc = 0
               THEN LET t3 == [t2 EXCEPT !.is_success = TRUE]
                        r4 == AddLog(AddLog(CountSuccess(r3), "Info",
                                            "FFmpeg process exited with code", <<>>, <<o.rc>>),
                                     "Info", "Merge files successfully",
                                     l.output_file.name, <<l.input_file_index>>)
                    IN [r4 EXCEPT !.task = Append(@, t3)]
               ELSE LET r4 == AddLog(AddLog(CountFailed(r3), "Error",
                                            "FFmpeg process terminated with code", <<>>,
                                            <<o.rc>>),
                                     "Error", "Merge files failed",
                                     l.output_file.name, <<l.input_file_index>>)
                    IN [r4 EXCEPT !.task = Append(@, t2)]
       ELSE LET r2 == AddLog(CountFailed(r1), "Error",
                             "Caught Exception when trying to merge files",
                             l.output_file.name, <<l.input_file_index>>)
            IN [r2 EXCEPT !.task = Append(@, t), !.exception = Append(@, "merge spawn")]

\* Lines 666-746: the task is run or not, and recorded; the loop goes on.
Execute ==
    /\ pc = "execute"
    /\ LET o == merge_of[Basename(video_files[video_index])]
       IN IF disable_ffmpeg_merge = TRUE
          THEN /\ result' = DryRun(result, task, loc)
               /\ UNCHANGED <<spawned, fs>>
          ELSE /\ result' = LiveRun(result, task, loc, o)
               /\ spawned' = [spawned EXCEPT !.merge = @ + 1]
               /\ fs' = IF o.spawn = "ok" /\ o.rc = 0 /\ PathIsDir(fs, output_folder_path)
                        THEN WriteFile(fs, loc.output_file) ELSE fs
    /\ video_index' = video_index + 1
    /\ pc' = "loop"
    /\ UNCHANGED <<call, params, world, has_fatal_error, scan, files_use_counter, task_id, task,
                   loc, removed, saved>>

\* ------------------------------------------------------ the end of a run

RECURSIVE UsageWarnings(_, _)
\* Lines 749-761: the files never used and the files used more than once.
UsageWarnings(r, i) ==
    IF i > Len(folder_files) THEN r
    ELSE UsageWarnings(
             IF files_use_counter[i] = 0
             THEN AddWarning(r, "File is never used", folder_files[i], <<>>)
             ELSE IF files_use_counter[i] > 1
             THEN AddWarning(r, "File is used times", folder_files[i],
                             <<files_use_counter[i]>>)
             ELSE r,
             i + 1)

\* Lines 747-761, after the last video (or at once after a fatal error).
UsageCheck ==
    /\ pc = "loop"
    /\ video_index > Len(video_files) \/ has_fatal_error
    /\ result' = IF has_fatal_error = FALSE THEN UsageWarnings(result, 1) ELSE result
    /\ pc' = "finish"
    /\ UNCHANGED <<call, params, world, fs, has_fatal_error, scan, files_use_counter, task_id,
                   video_index, task, loc, spawned, removed, saved>>

PersistIgnoringDryRun == has_fatal_error = FALSE

PersistIgnoringFatalError == disable_ffmpeg_merge = FALSE

\* Lines 766 and 795: are the log file and the JSON file to be written at all?
PersistEnabled == disable_ffmpeg_merge = FALSE /\ has_fatal_error = FALSE

\* Lines 767-782: a log file or JSON file that is already there is removed.
RemoveOldArtifact(st, enabled, path, msg) ==
    IF enabled /\ FileExists(st.fs, path)
    THEN [st EXCEPT !.result = AddWarning(@, msg, path.name, <<>>),
                    !.fs = RemoveFile(@, path),
                    !.removed = @ \cup {path}]
    ELSE st

\* Lines 784-790: the warning of a run without any task, and the summary line.
Summary(r) ==
    LET r1 == IF task_id = 0 /\ has_fatal_error = FALSE
              THEN AddWarning(r, "No task is executed", <<>>, <<>>)
              ELSE r
    IN AddLog(r1, "Info", "tasks done", <<>>,
              <<r1.task_count, r1.success_count, r1.failed_count, r1.warning_count>>)

\* Lines 763-812: the old artifacts are removed, the summary is logged, the
\* artifacts are written and the report is returned.  json.dump stops at the
\* first captured exception of the report, which it cannot serialise.
Finish ==
    /\ pc = "finish"
    /\ LET log_file == PathJoin(output_folder_path, OutputLog)
           json_file == PathJoin(output_folder_path, OutputJson)
           s0 == [result |-> result, fs |-> fs, removed |-> removed]
           s1 == IF PersistEnabled
                 THEN RemoveOldArtifact(
                          RemoveOldArtifact(s0, save_log_file, log_file,
                                            "Log file already exists, will be overwritten"),
                          save_json_file, json_file,
                          "JSON file already exists, will be overwritten")
                 ELSE s0
           r == Summary(s1.result)
           f1 == IF PersistEnabled /\ save_log_file THEN WriteFile(s1.fs, log_file) ELSE s1.fs
           f2 == IF PersistEnabled /\ save_json_file THEN WriteFile(f1, json_file) ELSE f1
       IN /\ result' = r
          /\ removed' = s1.removed
          /\ fs' = f2
          /\ saved' = [log |-> IF PersistEnabled /\ save_log_file
                               THEN <<r.output_log>> ELSE <<>>,
                       json |-> IF PersistEnabled /\ save_json_file
                                THEN <<[complete |-> Len(r.exception) = 0, report |-> r]>>
                                ELSE <<>>]
    /\ pc' = "done"
    /\ UNCHANGED <<call, params, world, has_fatal_error, scan, files_use_counter, task_id,
                   video_index, task, loc, spawned>>

\* ------------------------------------------------------------ the worlds

NameAmkv == <<"A", ".", "m", "k", "v">>
NameABmp4 == <<"A", "B", ".", "m", "p", "4">>
NameAflac == <<"A", ".", "f", "l", "a", "c">>
NameABensrt == <<"A", "B", ".", "e", "n", ".", "s", "r", "t">>
NameBsrt == <<"B", ".", "s", "r", "t">>
NameAsrt == <<"A", ".", "s", "r", "t">>
NameAmp4 == <<"A", ".", "m", "p", "4">>
NameNtxt == <<"n", ".", "t", "x", "t">>
NameHidden == <<".", "h">>
NameSub == <<"d">>

\* What an input folder may hold, in the order the listing gives it.
FileUniverse ==
    <<Entry(NameABensrt, FALSE), Entry(NameAmkv, FALSE), Entry(NameNtxt, FALSE),
      Entry(NameAflac, FALSE), Entry(NameABmp4, FALSE), Entry(NameBsrt, FALSE),
      Entry(NameAsrt, FALSE), Entry(NameHidden, FALSE), Entry(NameSub, TRUE)>>

\* What an output folder may hold before the run.
OldUniverse ==
    <<Entry(OutputLog, FALSE), Entry(OutputJson, FALSE), Entry(NameAmkv, FALSE)>>

AllNames == {FileUniverse[i].name : i \in 1..Len(FileUniverse)}

VideoNames == {n \in AllNames : IsVideoName(n)}

RECURSIVE Pick(_, _, _)
Pick(U, S, i) ==
    IF i > Len(U) THEN <<>>
    ELSE (IF i \in S THEN <<U[i]>> ELSE <<>>) \o Pick(U, S, i + 1)

\* The listings of at most n entries of U, in the order of U.
Listings(U, n) ==
    {Pick(U, S, 1) : S \in {T \in SUBSET (1..Len(U)) : Cardinality(T) <= n}}

SeqsUpTo(S, n) == UNION {[1..k -> S] : k \in 0..n}

StreamLine(fi, si, lang, type) ==
    [fi |-> fi, si |-> si, lang |-> lang, type |-> type, codec |-> "codec"]

ProbeOk(rc, lines) == [spawn |-> "ok", rc |-> rc, lines |-> lines]

ProbeException == [spawn |-> "exc", rc |-> -1, lines |-> <<>>]

\* What the inspection command usually says of a file of each class.
DefaultProbe(name) ==
    IF IsVideoName(name)
    THEN ProbeOk(1, <<StreamLine("0", 0, LangNone, "Video"),
                      StreamLine("0", 1, LangEng, "Audio")>>)
    ELSE IF IsSubtitleName(name)
    THEN ProbeOk(1, <<StreamLine("0", 0, LangNone, "Subtitle")>>)
    ELSE ProbeOk(1, <<StreamLine("0", 0, LangEng, "Audio")>>)

DefaultProbes == [n \in AllNames |-> DefaultProbe(n)]

\* Exit codes of the inspection command.
ProbeCodes == {0, 1, 2}

\* Any exit code with any stream lines of well-formed tags, or no process at all.
WideProbes ==
    {ProbeOk(rc, lines) :
        rc \in ProbeCodes,
        lines \in SeqsUpTo({StreamLine("0", si, LangEng, type) :
                               si \in 0..MaxIdx, type \in Kinds}, MaxStreams)}
    \cup {ProbeException}

\* One stream line of any shape.
LineProbes ==
    {ProbeOk(1, <<StreamLine(fi, si, lang, type)>>) :
        fi \in {"0", "1"}, si \in 0..MaxIdx, lang \in {LangNone, LangEng, LangHex},
        type \in Kinds}

MergeOk(rc, n) == [spawn |-> "ok", rc |-> rc, n |-> n]

MergeException == [spawn |-> "exc", rc |-> -1, n |-> 0]

MergeOutcomes ==
    {MergeOk(rc, n) : rc \in {0, 1}, n \in 0..MaxSummary} \cup {MergeException}

DefaultMerges == [n \in VideoNames |-> MergeOk(0, 1)]

OutputStates ==
    {MissingDir(TRUE), MissingDir(FALSE), NotADir}
    \cup {Dir(old) : old \in Listings(OldUniverse, MaxOld)}

\* The default values of the options of merge_video_stream (lines 212-216).
DefaultOptions ==
    /\ encoding_sub = TRUE
    /\ write_ffmpeg_log = FALSE
    /\ save_log_file = TRUE
    /\ save_json_file = FALSE

\* Any folder, everything else as usual.
InitFolders ==
    /\ DefaultOptions
    /\ disable_ffmpeg_merge \in BOOLEAN
    /\ \E listing \in Listings(FileUniverse, MaxFiles) :
           fs = [in |-> Dir(listing), out |-> Dir(<<>>)]
    /\ probe_of = DefaultProbes
    /\ merge_of = DefaultMerges

\* Any options, any state of the two folders and any end of the merge, for
\* one video with its audio file.
InitOptions ==
    /\ encoding_sub \in BOOLEAN
    /\ disable_ffmpeg_merge \in BOOLEAN
    /\ write_ffmpeg_log \in BOOLEAN
    /\ save_log_file \in BOOLEAN
    /\ save_json_file \in BOOLEAN
    /\ \E i \in {MissingDir(FALSE), NotADir,
                 Dir(<<Entry(NameAmkv, FALSE), Entry(NameAflac, FALSE)>>)},
          o \in OutputStates :
           fs = [in |-> i, out |-> o]
    /\ probe_of = DefaultProbes
    /\ \E m \in MergeOutcomes : merge_of = [n \in VideoNames |-> m]

\* Any end of each merge, for two videos that share an audio file.
InitMerges ==
    /\ encoding_sub = TRUE
    /\ disable_ffmpeg_merge \in BOOLEAN
    /\ write_ffmpeg_log \in BOOLEAN
    /\ save_log_file = TRUE
    /\ save_json_file = FALSE
    /\ fs = [in |-> Dir(<<Entry(NameAmkv, FALSE), Entry(NameAflac, FALSE),
                          Entry(NameABmp4, FALSE)>>),
             out |-> Dir(<<>>)]
    /\ probe_of = DefaultProbes
    /\ merge_of \in [VideoNames -> MergeOutcomes]

\* Two stream lines with the indices 0 and 1, of any two types.
PairProbes ==
    {ProbeOk(1, <<StreamLine("0", 0, LangEng, a), StreamLine("0", 1, LangEng, b)>>) :
        a \in Kinds, b \in Kinds}

\* No stream line at all, with any exit code or without a process.
EmptyProbes == {ProbeOk(rc, <<>>) : rc \in ProbeCodes} \cup {ProbeException}

\* For a task with a video, an audio file and a subtitle file: any answer of
\* the inspection command for the video, or an answer of one or two lines for
\* any one of the three files.
InitProbes ==
    /\ DefaultOptions
    /\ fs = [in |-> Dir(<<Entry(NameABensrt, FALSE), Entry(NameAmkv, FALSE),
                          Entry(NameAflac, FALSE)>>),
             out |-> Dir(<<>>)]
    /\ \/ /\ disable_ffmpeg_merge = TRUE
          /\ \E o \in WideProbes : probe_of = [DefaultProbes EXCEPT ![NameAmkv] = o]
       \/ /\ disable_ffmpeg_merge \in BOOLEAN
          /\ \E n \in {NameABensrt, NameAmkv, NameAflac},
                o \in LineProbes \cup PairProbes \cup EmptyProbes :
                 probe_of = [DefaultProbes EXCEPT ![n] = o]
    /\ merge_of = DefaultMerges

\* Two videos whose names differ by the extension only.
InitTwins ==
    /\ DefaultOptions
    /\ disable_ffmpeg_merge \in BOOLEAN
    /\ fs = [in |-> Dir(<<Entry(NameAmkv, FALSE), Entry(NameAmp4, FALSE)>>),
             out |-> Dir(<<>>)]
    /\ probe_of = [n \in AllNames \cup {NameAmp4} |-> DefaultProbe(n)]
    /\ merge_of = [n \in VideoNames \cup {NameAmp4} |-> MergeOk(0, 1)]

\* The input folder given as the output folder too.  The merge command does
\* not find the video that line 664 has removed, and fails.
InitSameFolder ==
    /\ output_folder_path = "in"
    /\ DefaultOptions
    /\ disable_ffmpeg_merge \in BOOLEAN
    /\ fs = [in |-> Dir(<<Entry(NameAmkv, FALSE), Entry(NameAflac, FALSE)>>),
             out |-> Dir(<<>>)]
    /\ probe_of = DefaultProbes
    /\ merge_of = [n \in VideoNames |-> MergeOk(1, 0)]

\* No direct call of is_prefix_matching is made.
NotReturned == [match |-> FALSE, full |-> <<"?">>, diff |-> <<"?">>]

NotCalling ==
    /\ arg_a = <<>>
    /\ arg_b = <<>>
    /\ returned = NotReturned

\* A video without companions, with an answer of one or two lines or none.
InitLoneVideo ==
    /\ DefaultOptions
    /\ disable_ffmpeg_merge = TRUE
    /\ fs = [in |-> Dir(<<Entry(NameAmkv, FALSE)>>), out |-> Dir(<<>>)]
    /\ \E o \in LineProbes \cup PairProbes \cup EmptyProbes :
           probe_of = [DefaultProbes EXCEPT ![NameAmkv] = o]
    /\ merge_of = DefaultMerges

Init ==
    /\ video_folder_path = "in"
    /\ \/ /\ output_folder_path = "out"
          /\ InitFolders \/ InitOptions \/ InitMerges \/ InitProbes \/ InitLoneVideo
                \/ InitTwins
       \/ InitSameFolder
    /\ pc = "start"
    /\ result = EmptyReport
    /\ has_fatal_error = FALSE
    /\ folder_files = <<>>
    /\ video_files = <<>>
    /\ audio_files = <<>>
    /\ subtitle_files = <<>>
    /\ files_use_counter = <<>>
    /\ task_id = 0
    /\ video_index = 1
    /\ task = NoTask
    /\ loc = NoLocals
    /\ spawned = [probe |-> 0, merge |-> 0]
    /\ removed = {}
    /\ saved = [log |-> <<>>, json |-> <<>>]
    /\ NotCalling

Next ==
    \/ Validate
    \/ Discover
    \/ ProcessVideoFile
    \/ ProcessAudioFiles
    \/ ProcessSubtitleFiles
    \/ MapStreams
    \/ BuildCommand
    \/ Execute
    \/ UsageCheck
    \/ Finish

Spec == Init /\ [][Next]_vars

\* ------------------------------------- is_prefix_matching called directly

PrefixLen == 3

Alphabet == {"A", "B"}

Strings == SeqsUpTo(Alphabet, PrefixLen)

\* Any two strings as arguments; merge_video_stream is not running.
InitPrefix ==
    /\ arg_a \in Strings
    /\ arg_b \in Strings
    /\ returned = NotReturned
    /\ video_folder_path = "in"
    /\ output_folder_path = "out"
    /\ DefaultOptions
    /\ disable_ffmpeg_merge = TRUE
    /\ fs = [in |-> Dir(<<>>), out |-> Dir(<<>>)]
    /\ probe_of = DefaultProbes
    /\ merge_of = DefaultMerges
    /\ pc = "start"
    /\ result = EmptyReport
    /\ has_fatal_error = FALSE
    /\ folder_files = <<>>
    /\ video_files = <<>>
    /\ audio_files = <<>>
    /\ subtitle_files = <<>>
    /\ files_use_counter = <<>>
    /\ task_id = 0
    /\ video_index = 1
    /\ task = NoTask
    /\ loc = NoLocals
    /\ spawned = [probe |-> 0, merge |-> 0]
    /\ removed = {}
    /\ saved = [log |-> <<>>, json |-> <<>>]

CallIsPrefixMatching ==
    /\ returned = NotReturned
    /\ returned' = is_prefix_matching(arg_a, arg_b)
    /\ UNCHANGED <<arg_a, arg_b, params, world, fs, pc, result, has_fatal_error, scan,
                   files_use_counter, task_id, video_index, task, loc, spawned,
                   removed, saved>>

NextPrefix == CallIsPrefixMatching

SpecPrefix == InitPrefix /\ [][NextPrefix]_vars

\* ------------------------------------------------------- the properties

Range(seq) == {seq[i] : i \in 1..Len(seq)}

\* The tasks whose mapping is over: the recorded ones, and the current one
\* between the mapping and its recording.
MappedTasks ==
    Range(result.task) \cup (IF pc \in {"build", "execute"} THEN {task} ELSE {})

\* The tasks whose inputs are all known.
GatheredTasks ==
    Range(result.task) \cup (IF pc \in {"map", "build", "execute", "raised"} THEN {task} ELSE {})

InputPaths(t) == {t.input_files[i].file_path : i \in 1..Len(t.input_files)}

\* The input_file records of the tasks.
ProbedRecords == UNION {Range(t.input_files) : t \in GatheredTasks}

\* C1: at every point of a run, with any folder, options and outcomes of the
\* probe and merge commands, the report's task_count equals success_count
\* plus failed_count.
C1_TaskCountIsSum ==
    result.task_count = result.success_count + result.failed_count

\* A run that is over with a task that succeeded and a task that failed.
C1_Witness ==
    pc = "done" /\ result.success_count >= 1 /\ result.failed_count >= 1

StreamClass(type) ==
    IF type = "Video" THEN 0
    ELSE IF type = "Audio" THEN 1
    ELSE IF type = "Subtitle" THEN 2
    ELSE 3

\* The places <<file, stream>> of the stream records of a task.
StreamPlaces(t) ==
    UNION {{<<f, p>> : p \in 1..Len(t.input_files[f].stream_info)} :
              f \in 1..Len(t.input_files)}

StreamAt(t, a) == t.input_files[a[1]].stream_info[a[2]]

\* Stream a comes before stream b in the layout: by type block, then by
\* input file, then by the order of the report inside the file.
ComesBefore(t, a, b) ==
    \/ StreamClass(StreamAt(t, a).type) < StreamClass(StreamAt(t, b).type)
    \/ /\ StreamClass(StreamAt(t, a).type) = StreamClass(StreamAt(t, b).type)
       /\ (a[1] < b[1] \/ (a[1] = b[1] /\ a[2] < b[2]))

LaidOutInBlocks(t) ==
    \A a \in StreamPlaces(t) :
        StreamAt(t, a).output_index
            = Cardinality({b \in StreamPlaces(t) : ComesBefore(t, b, a)})

\* C2: for every task and any probe results, after the mapping the output
\* indices of the task's stream records are exactly 0..k-1 for its k streams,
\* laid out in the blocks video, audio, subtitle, other, each block in the
\* order of the input files and then of the report inside a file.
C2_OutputIndicesInBlocks ==
    \A t \in MappedTasks : LaidOutInBlocks(t)

Stripped(path) == get_absolute_file_name(Basename(path))

PrefixEitherWay(a, b) == StartsWith(a, b) \/ StartsWith(b, a)

Companions == Range(audio_files) \cup Range(subtitle_files)

MatchesNoVideo(c) ==
    \A v \in Range(video_files) : ~PrefixEitherWay(Stripped(c), Stripped(v))

UseCount(c) ==
    {files_use_counter[i] : i \in {j \in DOMAIN files_use_counter :
                                      folder_files[j] = Basename(c)}}

\* C3: an audio or subtitle file is an input of a video's task exactly when
\* one of the two names without extension is a prefix of the other; a
\* companion that matches no video is an input of no task, and its use
\* counter is 0 at every point of the run.
C3_CompanionsByPrefix ==
    /\ \A t \in GatheredTasks : \A c \in Companions :
           c \in InputPaths(t)
               <=> PrefixEitherWay(Stripped(c), Stripped(t.input_files[1].file_path))
    /\ \A c \in Companions :
           MatchesNoVideo(c)
               => /\ \A t \in Range(result.task) \cup {task} : c \notin InputPaths(t)
                  /\ UseCount(c) = {0}

\* The task of AB.mp4 took A.flac, whose name is the shorter one, and B.srt
\* went with no video.
C3_Witness ==
    /\ pc = "done"
    /\ \E t \in Range(result.task) :
           /\ t.input_files[1].file_path = PathJoin(video_folder_path, NameABmp4)
           /\ PathJoin(video_folder_path, NameAflac) \in InputPaths(t)
    /\ PathJoin(video_folder_path, NameBsrt) \in Companions
    /\ MatchesNoVideo(PathJoin(video_folder_path, NameBsrt))

\* C4: with the merge disabled no merge process is started, every recorded
\* task is a success with exit code 0 and counted as one, none is counted as
\* failed, and neither output.log nor output.json is written, whatever
\* save_log_file and save_json_file are.
C4_DryRunMergesNothing ==
    disable_ffmpeg_merge = TRUE
        => /\ spawned.merge = 0
           /\ \A t \in Range(result.task) : t.is_success /\ t.ffmpeg_exit_code = 0
           /\ result.success_count = Len(result.task)
           /\ result.failed_count = 0
           /\ saved.log = <<>>
           /\ saved.json = <<>>

\* A run with the merge disabled and both files asked for is over, with a task.
C4_Witness ==
    /\ pc = "done"
    /\ disable_ffmpeg_merge = TRUE
    /\ save_log_file /\ save_json_file
    /\ Len(result.task) >= 1

\* C5: with any folder and any result of the probe and merge commands, stream
\* lines with stream indices out of order included, merge_video_stream raises
\* no exception.
C5_NeverRaises ==
    pc # "raised"

InputInvalid ==
    ~PathExists(fs, video_folder_path) \/ ~PathIsDir(fs, video_folder_path)

UsageWarned ==
    \E i \in 1..Len(result.warning_list) :
        result.warning_list[i].msg \in {"File is never used", "File is used times"}

NothingDone ==
    /\ folder_files = <<>> /\ video_files = <<>>
    /\ audio_files = <<>> /\ subtitle_files = <<>>
    /\ spawned = [probe |-> 0, merge |-> 0]
    /\ task_id = 0
    /\ result.task_count = 0 /\ result.task = <<>>

\* C6: when the input folder does not exist or is not a folder the run is
\* fatal: nothing is discovered, no probe and no merge is started, the report
\* has no task, the usage check is skipped, nothing is written or removed,
\* and the run still goes on to its return.
C6_InputFolderFatal ==
    InputInvalid /\ pc # "start"
        => /\ has_fatal_error = TRUE
           /\ NothingDone
           /\ ~UsageWarned
           /\ saved = [log |-> <<>>, json |-> <<>>]
           /\ removed = {}
           /\ pc = "done" \/ ENABLED Next

\* A run on a bad input folder, asked to merge and to save its log, is over.
C6_Witness ==
    /\ pc = "done"
    /\ InputInvalid
    /\ disable_ffmpeg_merge = FALSE
    /\ save_log_file

OutputInvalid ==
    \/ fs[output_folder_path].kind = "file"
    \/ fs[output_folder_path].kind = "missing" /\ ~fs[output_folder_path].creatable

Aborted ==
    /\ has_fatal_error = TRUE
    /\ NothingDone

\* C7, as the code has it: when the output folder is not a folder or cannot
\* be created the run is aborted before any probe and any task, provided the
\* merge is not disabled; with the merge disabled the output folder is not
\* looked at, and a bad one is no fatal error.
C7_OutputFolderFatalUnlessDryRun ==
    OutputInvalid /\ pc # "start"
        => /\ disable_ffmpeg_merge = FALSE => Aborted
           /\ disable_ffmpeg_merge = TRUE /\ ~InputInvalid => has_fatal_error = FALSE

\* A run asked to merge into a bad output folder, from a good input folder, is
\* over.
C7_Witness ==
    /\ pc = "done"
    /\ OutputInvalid
    /\ ~InputInvalid
    /\ disable_ffmpeg_merge = FALSE
    /\ has_fatal_error = TRUE

\* C7 as it is stated: a bad output folder aborts the run under every
\* combination of the options, the disabled merge included.
C7_OutputFolderFatalAlways ==
    OutputInvalid /\ pc # "start" => Aborted

\* C8: in a run without fatal error every video gets exactly one task, in the
\* order of the discovery, whatever happened to the tasks before it, so that
\* the run ends with as many recorded tasks as there are videos.
C8_EveryVideoGetsOneTask ==
    pc \in {"done", "raised"} /\ has_fatal_error = FALSE
        => /\ Len(result.task) = Len(video_files)
           /\ \A i \in 1..Len(result.task) :
                  /\ result.task[i].task_id = i
                  /\ result.task[i].input_files[1].file_path = video_files[i]

\* The probe ended with code 2 and its text held no stream line.
ProbeFailedSilently(rec) ==
    rec.ffmpeg_exit_code = 2 /\ rec.ffmpeg_log = <<>>

ProbeOf(rec) ==
    get_video_stream(TRUE, TRUE, Basename(rec.file_path),
                     probe_of[Basename(rec.file_path)])

OnlySilentFailures ==
    /\ \A n \in AllNames :
           probe_of[n] = DefaultProbe(n) \/ probe_of[n] = ProbeOk(2, <<>>)
    /\ \E n \in AllNames : probe_of[n] = ProbeOk(2, <<>>)

\* C9, as the code has it: a probe that exits with code 2 and prints no
\* stream line yields no stream and two warnings, one for the exit code and
\* one for the missing streams; the run does not raise and records a task for
\* every video.
C9_SilentProbeFailureTwoWarnings ==
    /\ \A rec \in ProbedRecords :
           ProbeFailedSilently(rec)
               => /\ rec.stream_info = <<>>
                  /\ ProbeOf(rec).stream_info = <<>>
                  /\ ProbeOf(rec).warning_count = 2
                  /\ Len(ProbeOf(rec).warning_list) = 2
    /\ OnlySilentFailures
           => /\ pc # "raised"
              /\ pc = "done" /\ has_fatal_error = FALSE
                     => Len(result.task) = Len(video_files)

\* A run is over whose recorded task has an input with such a probe.
C9_Witness ==
    /\ pc = "done"
    /\ \E t \in Range(result.task) : \E rec \in Range(t.input_files) :
           ProbeFailedSilently(rec)

\* C9 as it is stated: such a probe records exactly one warning.
C9_SilentProbeFailureOneWarning ==
    \A rec \in ProbedRecords :
        ProbeFailedSilently(rec)
            => /\ rec.stream_info = <<>>
               /\ ProbeOf(rec).warning_count = 1

\* C10: for a file that exists, the probe's is_success is true exactly when
\* the inspection command exited with code 0 or 1.
C10_ProbeSuccessByExitCode ==
    \A rec \in ProbedRecords :
        FileExists(fs, rec.file_path)
            => (rec.is_success <=> rec.ffmpeg_exit_code \in {0, 1})

\* The number of recorded tasks with the folder entry among their inputs.
TasksUsing(name) ==
    Cardinality({k \in 1..Len(result.task) :
                    PathJoin(video_folder_path, name) \in InputPaths(result.task[k])})

\* The warnings of the report with this message about this file.
WarningsAbout(msg, name) ==
    {j \in 1..Len(result.warning_list) :
        result.warning_list[j].msg = msg /\ result.warning_list[j].f = name}

\* C11: in a run without fatal error the usage check comes after the last
\* task is recorded, and for every discovered file it warns once "never used"
\* exactly when no task has the file, once "used N times", N the number of
\* tasks that have the file, exactly when N > 1, and not at all when N = 1.
C11_UsageCheck ==
    /\ UsageWarned
           => pc \in {"finish", "done"} /\ Len(result.task) = Len(video_files)
    /\ pc \in {"finish", "done"} /\ has_fatal_error = FALSE
           => \A i \in 1..Len(folder_files) :
                  /\ Cardinality(WarningsAbout("File is never used", folder_files[i]))
                         = IF TasksUsing(folder_files[i]) = 0 THEN 1 ELSE 0
                  /\ Cardinality(WarningsAbout("File is used times", folder_files[i]))
                         = IF TasksUsing(folder_files[i]) > 1 THEN 1 ELSE 0
                  /\ \A j \in WarningsAbout("File is used times", folder_files[i]) :
                         result.warning_list[j].n = <<TasksUsing(folder_files[i])>>

\* A run is over in which A.flac went into the tasks of two videos.
C11_Witness ==
    /\ pc = "done"
    /\ has_fatal_error = FALSE
    /\ NameAflac \in Range(folder_files)
    /\ TasksUsing(NameAflac) = 2
    /\ WarningsAbout("File is used times", NameAflac) # {}

\* What the merge command did for the task.
MergeOf(t) == merge_of[Basename(t.input_files[1].file_path)]

MergeExitedZero(t) == MergeOf(t).spawn = "ok" /\ MergeOf(t).rc = 0

\* C12: when the merge is not disabled, a task is a success and counted in
\* success_count exactly when the merge process exited with code 0; with
\* another exit code or an exception of the spawn it is counted in
\* failed_count and still recorded, with exit code -1 after the exception.
C12_LiveSuccessByExitCode ==
    disable_ffmpeg_merge = FALSE
        => /\ \A t \in Range(result.task) :
                  /\ t.is_success <=> MergeExitedZero(t)
                  /\ t.ffmpeg_exit_code
                         = IF MergeOf(t).spawn = "ok" THEN MergeOf(t).rc ELSE -1
           /\ Len(result.task) = spawned.merge
           /\ result.success_count
                  = Cardinality({k \in 1..Len(result.task) : MergeExitedZero(result.task[k])})
           /\ result.failed_count
                  = Cardinality({k \in 1..Len(result.task) : ~MergeExitedZero(result.task[k])})

\* A run that merged is over, with a task whose spawn raised, a task whose
\* merge exited with another code than 0 or one that exited with 0.
C12_Witness ==
    /\ pc = "done"
    /\ disable_ffmpeg_merge = FALSE
    /\ \E t \in Range(result.task) : MergeOf(t).spawn = "exc" /\ t.ffmpeg_exit_code = -1
    /\ \E t \in Range(result.task) : MergeOf(t).spawn = "ok"

\* The part of the longer of two names beyond the shorter one.
Differential(a, b) ==
    IF Len(a) >= Len(b) THEN SubSeq(a, Len(b) + 1, Len(a))
    ELSE SubSeq(b, Len(a) + 1, Len(b))

\* The characters of a file name after its last dot.
Extension(name) ==
    SubSeq(name, (CHOOSE i \in 1..Len(name) :
                      name[i] = Dot /\ \A j \in (i + 1)..Len(name) : name[j] # Dot) + 1,
           Len(name))

DropOneLeadingDot(s) == IF Len(s) > 0 /\ s[1] = Dot THEN Tail(s) ELSE s

ExpectedTitle(video_file, subtitle_file) ==
    DropOneLeadingDot(Differential(Stripped(video_file), Stripped(subtitle_file))
                          \o <<Dot>> \o Extension(Basename(subtitle_file)))

\* The subtitle streams of the current task that a subtitle file holds, in
\* the order of the mapping.
TitledRefs ==
    SelectSeq(loc.subtitle_stream,
              LAMBDA ref : task.input_files[ref.f + 1].file_path \in Range(subtitle_files))

\* C13: every subtitle stream that a matched subtitle file holds gets as its
\* title the difference of the two names without extension, a dot and the
\* extension of the subtitle file, less one leading dot; the title is not
\* empty, and no "has no valid title" warning is ever made.
C13_SubtitleTitle ==
    /\ pc \in {"build", "execute"}
           => /\ Len(loc.cmd_metadata_args) = 2 * Len(TitledRefs)
              /\ \A k \in 1..Len(TitledRefs) :
                     /\ loc.cmd_metadata_args[2 * k]
                            = TitleArg(ExpectedTitle(
                                  video_files[video_index],
                                  task.input_files[TitledRefs[k].f + 1].file_path))
                     /\ loc.cmd_metadata_args[2 * k].f # <<>>
    /\ \A j \in 1..Len(result.warning_list) :
           result.warning_list[j].msg # "Subtitle file has no valid title"

\* The task of AB.mp4 with AB.en.srt is mapped: the title is en.srt.
C13_Witness ==
    /\ pc = "execute"
    /\ Basename(video_files[video_index]) = NameABmp4
    /\ TitleArg(<<"e", "n", ".", "s", "r", "t">>) \in Range(loc.cmd_metadata_args)

\* The streams of the current task in the order of their mapping.
MappedRefs ==
    loc.video_stream \o loc.audio_stream \o loc.subtitle_stream \o loc.other_stream

\* C14: in the mapping of a task the output index of each stream record is
\* written exactly once, whatever stream indices the probe reported: after
\* the mapping no record holds -1, and no two streams write the same record.
C14_OutputIndexWrittenOnce ==
    pc \in {"build", "execute"}
        => /\ \A a \in StreamPlaces(task) : StreamAt(task, a).output_index # -1
           /\ \A i \in 1..Len(MappedRefs) : \A j \in 1..Len(MappedRefs) :
                  i # j => <<MappedRefs[i].f, MappedRefs[i].s>>
                               # <<MappedRefs[j].f, MappedRefs[j].s>>

\* The tasks whose command is put together.
BuiltTasks ==
    Range(result.task) \cup (IF pc = "execute" THEN {task} ELSE {})

\* The "<file>:<stream>" arguments of the command of a task, in their order.
MapArgsOf(t) == SelectSeq(t.cmd_args, LAMBDA arg : arg.k = "f:s")

\* The stream records of a task with this output index.
PlacesWithOutputIndex(t, n) ==
    {a \in StreamPlaces(t) : StreamAt(t, a).output_index = n}

\* C15: for any probe results, the i-th -map argument of a task's command,
\* counted from 0, names the one stream record whose output index is i: the
\* record is of input file f and its stream index is s.
C15_MapArgsNameRecords ==
    \A t \in BuiltTasks :
        \A i \in 1..Len(MapArgsOf(t)) :
            /\ Cardinality(PlacesWithOutputIndex(t, i - 1)) = 1
            /\ \A a \in PlacesWithOutputIndex(t, i - 1) :
                   /\ a[1] = MapArgsOf(t)[i].a + 1
                   /\ StreamAt(t, a).index = MapArgsOf(t)[i].b

\* The companions among files that go with the video, in their order.
MatchedTo(video_file, files) ==
    SelectSeq(files, LAMBDA c : PrefixEitherWay(Stripped(c), Stripped(video_file)))

\* The inputs a task of this video is to have, in their order.
ExpectedInputs(video_file) ==
    <<video_file>> \o MatchedTo(video_file, audio_files)
        \o MatchedTo(video_file, subtitle_files)

\* C16: the first input of every task is its video, then come the matched
\* audio files in the order of the discovery and then the matched subtitle
\* files in that order; the i-th input has the index i, and the -i
\* arguments of the command name the same files in the same order.
C16_InputOrder ==
    /\ \A t \in GatheredTasks :
           /\ [i \in 1..Len(t.input_files) |-> t.input_files[i].file_path]
                  = ExpectedInputs(video_files[t.task_id])
           /\ \A i \in 1..Len(t.input_files) : t.input_files[i].index = i - 1
    /\ \A t \in BuiltTasks :
           /\ SelectSeq(t.cmd_args, LAMBDA arg : arg = Lit("-i"))
                  = [i \in 1..Len(t.input_files) |-> Lit("-i")]
           /\ \A i \in 1..Len(t.input_files) :
                  /\ t.cmd_args[2 * i] = Lit("-i")
                  /\ t.cmd_args[2 * i + 1] = PathArg(t.input_files[i].file_path)

\* A recorded task of A.mkv with two subtitle files, listed before the video.
C16_Witness ==
    /\ pc = "done"
    /\ \E t \in Range(result.task) :
           [i \in 1..Len(t.input_files) |-> Basename(t.input_files[i].file_path)]
               = <<NameAmkv, NameABensrt, NameAsrt>>

RECURSIVE InputSegment(_)
\* One "-i <path>" pair for each input file.
InputSegment(files) ==
    IF Len(files) = 0 THEN <<>>
    ELSE <<Lit("-i"), PathArg(Head(files).file_path)>> \o InputSegment(Tail(files))

RECURSIVE MapSegment(_)
\* One "-map <f>:<s>" pair for each mapped stream.
MapSegment(refs) ==
    IF Len(refs) = 0 THEN <<>>
    ELSE <<Lit("-map"), MapArg(Head(refs).f, Head(refs).s)>> \o MapSegment(Tail(refs))

DispositionSegment ==
    (IF Len(loc.audio_stream) > 0 THEN <<Lit("-disposition:a:0"), Lit("default")>> ELSE <<>>)
        \o (IF Len(loc.subtitle_stream) > 0
            THEN <<Lit("-disposition:s:0"), Lit("default")>> ELSE <<>>)

CodecSegment ==
    IF encoding_sub = TRUE
    THEN <<Lit("-c:v"), Lit("copy"), Lit("-c:a"), Lit("copy")>>
    ELSE <<Lit("-c"), Lit("copy")>>

Destination(video_file) ==
    PathArg(PathJoin(output_folder_path, Stripped(video_file) \o ExtMkv))

IsTitlePairs(args) ==
    /\ Len(args) % 2 = 0
    /\ \A i \in 1..Len(args) :
           args[i].k = IF i % 2 = 1 THEN "-metadata:s:" ELSE "title="

\* C17: the argument list of every task is, in this order, the tool name, one
\* -i pair for each input file, one -map pair for each mapped stream, the
\* title arguments, the disposition arguments, the codec segment (-c:v copy
\* -c:a copy with encoding_sub, -c copy without) and last the destination
\* <output folder>/<name of the video without extension>.mkv.
C17_ArgumentOrder ==
    /\ pc = "execute"
           => /\ task.cmd_args
                     = <<Lit("ffmpeg")>> \o InputSegment(task.input_files)
                           \o MapSegment(MappedRefs) \o loc.cmd_metadata_args
                           \o DispositionSegment \o CodecSegment
                           \o <<Destination(video_files[video_index])>>
              /\ IsTitlePairs(loc.cmd_metadata_args)
    /\ \A t \in BuiltTasks :
           /\ t.cmd_args[1] = Lit("ffmpeg")
           /\ t.cmd_args[Len(t.cmd_args)] = Destination(video_files[t.task_id])
           /\ SubSeq(t.cmd_args, Len(t.cmd_args) - Len(CodecSegment), Len(t.cmd_args) - 1)
                  = CodecSegment

\* The command of a task with an audio file is built, without encoding_sub.
C17_Witness ==
    /\ pc = "execute"
    /\ encoding_sub = FALSE
    /\ Len(task.input_files) = 2
    /\ Len(MappedRefs) = 3

\* The stream records of a task that are of the Subtitle type and belong to
\* an input that is one of the subtitle files.
SubtitleFileStreams(t) ==
    {a \in StreamPlaces(t) :
        /\ StreamAt(t, a).type = "Subtitle"
        /\ t.input_files[a[1]].file_path \in Range(subtitle_files)}

\* The places, in the order of the mapping of the current task, of the
\* subtitle streams that a subtitle file holds.
TitledPositions ==
    {i \in 1..Len(MappedRefs) :
        /\ i > Len(loc.video_stream) + Len(loc.audio_stream)
        /\ i <= Len(loc.video_stream) + Len(loc.audio_stream) + Len(loc.subtitle_stream)
        /\ task.input_files[MappedRefs[i].f + 1].file_path \in Range(subtitle_files)}

TitleArgsOf(t) == SelectSeq(t.cmd_args, LAMBDA arg : arg.k = "title=")

\* C18: the command of a task has one -metadata:s:<n> title= pair for each
\* Subtitle stream of an input that is a subtitle file, n being the output
\* index the mapping gave that stream, and none for a subtitle stream inside
\* the video or an audio file; there are as many titles as such streams.
C18_TitlePerSubtitleFileStream ==
    /\ pc \in {"build", "execute"}
           => /\ IsTitlePairs(loc.cmd_metadata_args)
              /\ Len(loc.cmd_metadata_args) = 2 * Cardinality(TitledPositions)
              /\ {loc.cmd_metadata_args[k].a :
                     k \in {j \in 1..Len(loc.cmd_metadata_args) : j % 2 = 1}}
                     = {i - 1 : i \in TitledPositions}
              /\ Cardinality(TitledPositions) = Cardinality(SubtitleFileStreams(task))
    /\ \A t \in BuiltTasks :
           Len(TitleArgsOf(t)) = Cardinality(SubtitleFileStreams(t))

\* A task is mapped that has a subtitle stream inside its video and one in a
\* subtitle file: only the second has a title.
C18_Witness ==
    /\ pc = "execute"
    /\ \E i \in 1..Len(loc.subtitle_stream) : loc.subtitle_stream[i].f = 0
    /\ Cardinality(SubtitleFileStreams(task)) = 1
    /\ Len(TitleArgsOf(task)) = 1

\* The places of a word in the command of a task.
PlacesOfWord(t, word) == {i \in 1..Len(t.cmd_args) : t.cmd_args[i] = Lit(word)}

HasStreamOfType(t, type) == \E a \in StreamPlaces(t) : StreamAt(t, a).type = type

DispositionOnce(t, word, type) ==
    /\ Cardinality(PlacesOfWord(t, word)) = IF HasStreamOfType(t, type) THEN 1 ELSE 0
    /\ \A i \in PlacesOfWord(t, word) :
           i < Len(t.cmd_args) /\ t.cmd_args[i + 1] = Lit("default")

\* C19: the command of a task has -disposition:a:0 default exactly when the
\* task has an audio stream, and -disposition:s:0 default exactly when it has
\* a subtitle stream, each once at most and the audio one first.
C19_Disposition ==
    \A t \in BuiltTasks :
        /\ DispositionOnce(t, "-disposition:a:0", "Audio")
        /\ DispositionOnce(t, "-disposition:s:0", "Subtitle")
        /\ \A i \in PlacesOfWord(t, "-disposition:a:0") :
               \A j \in PlacesOfWord(t, "-disposition:s:0") : i < j

\* The command of a task with a subtitle stream and no audio stream is built.
C19_Witness ==
    /\ pc = "execute"
    /\ HasStreamOfType(task, "Subtitle")
    /\ ~HasStreamOfType(task, "Audio")
    /\ PlacesOfWord(task, "-disposition:s:0") # {}

IsPrefixOf(p, s) == Len(p) <= Len(s) /\ \A i \in 1..Len(p) : p[i] = s[i]

Longer(b, c) == IF Len(b) > Len(c) THEN b ELSE c

Shorter(b, c) == IF Len(b) > Len(c) THEN c ELSE b

Beyond(b, c) == SubSeq(Longer(b, c), Len(Shorter(b, c)) + 1, Len(Longer(b, c)))

\* How many leading characters two strings share.
CommonLength(b, c) ==
    CHOOSE n \in 0..Len(Shorter(b, c)) :
        /\ \A i \in 1..n : b[i] = c[i]
        /\ n = Len(Shorter(b, c)) \/ b[n + 1] # c[n + 1]

HasReturned == returned # NotReturned

\* C20: is_prefix_matching(B, C) matches exactly when one string is a prefix
\* of the other; equal strings match with an empty difference; a match gives
\* the longer string and its part beyond the shorter one; a mismatch gives
\* the empty string and the longest common prefix; the flag and the
\* difference are the same with the arguments swapped.
C20_PrefixMatchingContract ==
    HasReturned =>
        /\ returned.match <=> (IsPrefixOf(arg_a, arg_b) \/ IsPrefixOf(arg_b, arg_a))
        /\ arg_a = arg_b => returned.match /\ returned.diff = <<>>
        /\ returned.match =>
               /\ returned.full = Longer(arg_a, arg_b)
               /\ returned.diff = Beyond(arg_a, arg_b)
        /\ ~returned.match =>
               /\ returned.full = <<>>
               /\ returned.diff = SubSeq(arg_a, 1, CommonLength(arg_a, arg_b))
        /\ is_prefix_matching(arg_b, arg_a).match = returned.match
        /\ is_prefix_matching(arg_b, arg_a).diff = returned.diff

\* A call with two equal strings that are not empty has returned.
C20_Witness ==
    /\ HasReturned
    /\ arg_a = arg_b
    /\ Len(arg_a) = PrefixLen
    /\ returned.match

\* The warnings a step adds to the report.
AddedWarnings ==
    SubSeq(result'.warning_list, Len(result.warning_list) + 1, Len(result'.warning_list))

CountOf(ws, w) == Cardinality({i \in 1..Len(ws) : ws[i] = w})

CountOfMsg(ws, msg) == Cardinality({i \in 1..Len(ws) : ws[i].msg = msg})

VideoStreamCount(t) ==
    Cardinality({a \in StreamPlaces(t) : StreamAt(t, a).type = "Video"})

\* The three warnings about the video streams and the companions of the task
\* whose mapping this step makes: each one once in its case, never otherwise.
PolicyWarningsExact ==
    /\ CountOfMsg(AddedWarnings, "Merge video streams into one file")
           = IF VideoStreamCount(task) > 1 THEN 1 ELSE 0
    /\ CountOf(AddedWarnings, Warning("Merge video streams into one file", <<>>,
                                      <<VideoStreamCount(task)>>))
           = IF VideoStreamCount(task) > 1 THEN 1 ELSE 0
    /\ CountOfMsg(AddedWarnings, "No video stream found")
           = IF VideoStreamCount(task) = 0 THEN 1 ELSE 0
    /\ CountOfMsg(AddedWarnings, "No matching file found")
           = IF Len(task.input_files) = 1 THEN 1 ELSE 0

HasPolicyWarning(t) ==
    VideoStreamCount(t) # 1 \/ Len(t.input_files) = 1

\* The three warnings are exact in every mapping step.
PolicyWarningsExactAlways == [][pc = "map" => PolicyWarningsExact]_vars

\* C21: the mapping of a task records 'Merge N video streams into one file'
\* once exactly when N > 1 video streams are mapped, 'No video stream found'
\* once exactly when there is none, 'No matching file found' once exactly when
\* the task has no companion; and in each of these cases the mapping
\* completes and the task goes on to be built.
C21_PolicyWarnings ==
    [][pc = "map" =>
          /\ PolicyWarningsExact
          /\ HasPolicyWarning(task) => pc' = "build"]_vars

\* The kind of file the step at this place of the run looks at.
HostKind == IF pc = "audio" THEN "Audio" ELSE "Subtitle"

\* The places in the task of the input files a step adds.
AddedInputs == (Len(task.input_files) + 1)..Len(task'.input_files)

UnexpectedMessages ==
    {"Found unexpected " \o kind \o "stream in " \o host \o " file" :
        kind \in {"video ", "audio ", "subtitle ", ""}, host \in {"audio", "subtitle"}}

\* The warnings of a step about a stream of an unexpected kind in this file.
UnexpectedWarnings(name) ==
    {i \in 1..Len(AddedWarnings) :
        AddedWarnings[i].f = name /\ AddedWarnings[i].msg \in UnexpectedMessages}

\* The stream records of an input file that are not of the kind of the file,
\* the kinds in quiet left aside.
ForeignStreams(rec, quiet) ==
    {p \in 1..Len(rec.stream_info) :
        rec.stream_info[p].type # HostKind /\ rec.stream_info[p].type \notin quiet}

BucketOf(l, type) ==
    IF type = "Video" THEN l.video_stream
    ELSE IF type = "Audio" THEN l.audio_stream
    ELSE IF type = "Subtitle" THEN l.subtitle_stream
    ELSE l.other_stream

ForeignStreamsWarned(quiet) ==
    \A f \in AddedInputs :
        /\ Cardinality(UnexpectedWarnings(Basename(task'.input_files[f].file_path)))
               = Cardinality(ForeignStreams(task'.input_files[f], quiet))
        /\ \A p \in ForeignStreams(task'.input_files[f], {}) :
               [f |-> f - 1, s |-> task'.input_files[f].stream_info[p].index]
                   \in Range(BucketOf(loc', task'.input_files[f].stream_info[p].type))

QuietInAudio == IF pc = "audio" THEN {"Subtitle"} ELSE {}

\* The same with the subtitle streams of audio files left aside.
ForeignStreamsWarnedButSubtitleInAudio ==
    [][(pc \in {"audio", "subtitle"}) => ForeignStreamsWarned(QuietInAudio)]_vars

\* C22: every stream of a matched audio or subtitle file that is not of the
\* kind of its file goes to the list of its own kind, from which the mapping
\* is made, and adds one warning that names the file.
C22_ForeignStreamsWarned ==
    [][(pc \in {"audio", "subtitle"}) => ForeignStreamsWarned({})]_vars

\* What the merge command of the current video does.
CurrentMerge == merge_of[Basename(video_files[video_index])]

\* The step runs the merge command and the command ends with an exit code.
LiveMergeEnds == pc = "execute" /\ disable_ffmpeg_merge = FALSE /\ CurrentMerge.spawn = "ok"

RecordedTask == result'.task[Len(result'.task)]

ReportScanWarnings(n, rc) ==
    /\ CountOf(AddedWarnings, Warning("FFmpeg may have reported warnings", <<>>, <<n - 1>>))
           = IF rc = 0 /\ n > 1 THEN 1 ELSE 0
    /\ CountOf(AddedWarnings, Warning("Unable to find FFmpeg output summary", <<>>, <<>>))
           = IF rc = 0 /\ n = 0 THEN 1 ELSE 0
    /\ Len(AddedWarnings) = IF rc = 0 /\ n # 1 THEN 1 ELSE 0

\* The flag of the task and the counters follow from the exit code alone.
OutcomeByExitCode(rc) ==
    /\ Len(result'.task) = Len(result.task) + 1
    /\ RecordedTask.is_success = (rc = 0)
    /\ result'.task_count = result.task_count + 1
    /\ result'.success_count = result.success_count + (IF rc = 0 THEN 1 ELSE 0)
    /\ result'.failed_count = result.failed_count + (IF rc = 0 THEN 0 ELSE 1)

\* C23: after a live merge with n report lines in its log, one warning about
\* n - 1 possible warnings is added when the exit code is 0 and n > 1, one
\* warning that the summary is missing when the exit code is 0 and n = 0, and
\* none when n = 1 or the exit code is not 0; the success flag of the task
\* and the counters depend on the exit code only.
C23_ReportScan ==
    [][LiveMergeEnds =>
          /\ ReportScanWarnings(CurrentMerge.n, CurrentMerge.rc)
          /\ OutcomeByExitCode(CurrentMerge.rc)]_vars

\* A merge that exited with 0 and two report lines is recorded as a success
\* with the warning about one possible warning.
C23_Witness ==
    /\ \E i \in 1..Len(result.task) :
           /\ result.task[i].ffmpeg_exit_code = 0
           /\ result.task[i].ffmpeg_log.matches = 2
           /\ result.task[i].is_success
    /\ Warning("FFmpeg may have reported warnings", <<>>, <<1>>) \in Range(result.warning_list)
    /\ disable_ffmpeg_merge = FALSE

LogFile == PathJoin(output_folder_path, OutputLog)

JsonFile == PathJoin(output_folder_path, OutputJson)

\* The last step of a live run without fatal error.
LiveRunEnds == pc = "finish" /\ disable_ffmpeg_merge = FALSE /\ has_fatal_error = FALSE

\* The step writes the file at path exactly when it is enabled, and warns once
\* exactly when it replaces a file.
ArtifactWritten(enabled, path, written, msg) ==
    /\ (written # <<>>) <=> enabled
    /\ enabled => FileExists(fs', path)
    /\ ~enabled => (FileExists(fs', path) <=> FileExists(fs, path))
    /\ CountOfMsg(AddedWarnings, msg) = IF enabled /\ FileExists(fs, path) THEN 1 ELSE 0

LogHoldsReport == save_log_file => saved'.log = <<result'.output_log>>

JsonHoldsReport ==
    save_json_file => saved'.json[1].complete /\ saved'.json[1].report = result'

ArtifactsWritten ==
    /\ ArtifactWritten(save_log_file, LogFile, saved'.log,
                       "Log file already exists, will be overwritten")
    /\ ArtifactWritten(save_json_file, JsonFile, saved'.json,
                       "JSON file already exists, will be overwritten")
    /\ LogHoldsReport

\* The artifacts of the runs in which no exception was captured.
ArtifactsOfRunsWithoutException ==
    [][LiveRunEnds /\ Len(result.exception) = 0 => ArtifactsWritten /\ JsonHoldsReport]_vars

\* C24: a live run without fatal error writes output.log exactly when the log
\* file is enabled and output.json exactly when the JSON file is enabled;
\* each one holds the whole final report, captured exceptions or not; a file
\* that was there is replaced with one warning.
C24_ArtifactsHoldReport ==
    [][LiveRunEnds => ArtifactsWritten /\ JsonHoldsReport]_vars

OverwriteMessages ==
    {"Output file already exists, will be overwritten",
     "Log file already exists, will be overwritten",
     "JSON file already exists, will be overwritten"}

\* C25: with the merge disabled no step changes the file system: the output
\* folder is not created, no file is removed, written or reported as
\* overwritten.
C25_DryRunKeepsFiles ==
    [][disable_ffmpeg_merge = TRUE =>
          /\ fs' = fs
          /\ removed' = {}
          /\ \A i \in 1..Len(AddedWarnings) : AddedWarnings[i].msg \notin OverwriteMessages]_vars

\* A run with the merge disabled is over with a task whose output file was
\* already in the output folder, and the file is still there.
C25_Witness ==
    /\ pc = "done"
    /\ disable_ffmpeg_merge = TRUE
    /\ \E i \in 1..Len(result.task) :
           /\ result.task[i].input_files[1].file_path = PathJoin(video_folder_path, NameAmkv)
           /\ FileExists(fs, PathJoin(output_folder_path, NameAmkv))

\* The output file of a task whose command is built: its last argument.
DestinationOf(t) == t.cmd_args[Len(t.cmd_args)]

\* C26: in a live run no two tasks have the same destination path, so that
\* each task leaves the outputs of the earlier tasks alone.
C26_DistinctDestinations ==
    disable_ffmpeg_merge = FALSE =>
        \A i, j \in 1..Len(result.task) :
            i # j => DestinationOf(result.task[i]) # DestinationOf(result.task[j])

\* C27: in every step the log lines, the warnings, the exceptions and the
\* tasks of the report are what they were with, possibly, more at the end
\* (so that a recorded task is never changed), and no counter goes down.
C27_ReportOnlyGrows ==
    [][/\ IsPrefixOf(result.output_log, result'.output_log)
       /\ IsPrefixOf(result.warning_list, result'.warning_list)
       /\ IsPrefixOf(result.exception, result'.exception)
       /\ IsPrefixOf(result.task, result'.task)
       /\ result.task_count <= result'.task_count
       /\ result.success_count <= result'.success_count
       /\ result.failed_count <= result'.failed_count
       /\ result.warning_count <= result'.warning_count]_vars

\* A run is over with two tasks, warnings and a captured exception in its report.
C27_Witness ==
    /\ pc = "done"
    /\ Len(result.task) = 2
    /\ Len(result.warning_list) > 0
    /\ Len(result.exception) > 0
    /\ Len(result.output_log) > Len(result.warning_list)

\* What the probe of an input file of a task returned.
ProbeResult(rec) ==
    get_video_stream(TRUE, TRUE, Basename(rec.file_path), probe_of[Basename(rec.file_path)])

\* C28: at every point of a run the report's warning_count is the length of
\* its warning_list, and so it is in what the probe of every input file
\* returned, whose warnings the report takes over.
C28_WarningCountIsLength ==
    /\ result.warning_count = Len(result.warning_list)
    /\ \A rec \in ProbedRecords :
           ProbeResult(rec).warning_count = Len(ProbeResult(rec).warning_list)

\* A run is over whose report holds warnings of a probe and warnings of its own.
C28_Witness ==
    /\ pc = "done"
    /\ \E rec \in ProbedRecords :
           /\ Len(ProbeResult(rec).warning_list) >= 2
           /\ \A i \in 1..Len(ProbeResult(rec).warning_list) :
                  ProbeResult(rec).warning_list[i] \in Range(result.warning_list)
           /\ Len(result.warning_list) > Len(ProbeResult(rec).warning_list)

\* The paths of the files the scan of the input folder keeps.
DiscoveredFiles == {PathJoin(video_folder_path, n) : n \in Range(folder_files)}

\* C29: no path given to os.remove is a file that the scan of the input
\* folder has kept, whatever the two folder paths are.
C29_InputFilesNeverRemoved == removed \cap DiscoveredFiles = {}

\* What the probe of the file at a path reports as its streams.
ReportedStreams(path) ==
    get_video_stream(TRUE, TRUE, Basename(path), probe_of[Basename(path)]).stream_info

RECURSIVE InputPairs(_)
InputPairs(paths) ==
    IF Len(paths) = 0 THEN <<>>
    ELSE <<Lit("-i"), PathArg(Head(paths))>> \o InputPairs(Tail(paths))

RECURSIVE RefsOfStreams(_, _, _)
\* The streams of one class among the streams of input f, as <file>:<stream>.
RefsOfStreams(f, streams, class) ==
    IF Len(streams) = 0 THEN <<>>
    ELSE (IF StreamClass(Head(streams).type) = class
          THEN <<[f |-> f, s |-> Head(streams).index]>> ELSE <<>>)
             \o RefsOfStreams(f, Tail(streams), class)

RECURSIVE RefsOfFiles(_, _, _)
RefsOfFiles(paths, f, class) ==
    IF Len(paths) = 0 THEN <<>>
    ELSE RefsOfStreams(f, ReportedStreams(Head(paths)), class)
             \o RefsOfFiles(Tail(paths), f + 1, class)

RefsOfClass(video_file, class) == RefsOfFiles(ExpectedInputs(video_file), 0, class)

RECURSIVE TitlePairs(_, _, _)
\* The title arguments of the subtitle streams refs, the first of which gets
\* the output index n.
TitlePairs(video_file, refs, n) ==
    IF Len(refs) = 0 THEN <<>>
    ELSE (IF ExpectedInputs(video_file)[Head(refs).f + 1] \in Range(subtitle_files)
          THEN <<MetadataArg(n),
                 TitleArg(ExpectedTitle(video_file,
                                        ExpectedInputs(video_file)[Head(refs).f + 1]))>>
          ELSE <<>>)
             \o TitlePairs(video_file, Tail(refs), n + 1)

\* The command of the task of a video, from the listing of the input folder,
\* the reports of the probes, encoding_sub and the output folder alone.
ReferenceCommand(video_file) ==
    <<Lit("ffmpeg")>> \o InputPairs(ExpectedInputs(video_file))
        \o MapSegment(RefsOfClass(video_file, 0) \o RefsOfClass(video_file, 1)
                          \o RefsOfClass(video_file, 2) \o RefsOfClass(video_file, 3))
        \o TitlePairs(video_file, RefsOfClass(video_file, 2),
                      Len(RefsOfClass(video_file, 0)) + Len(RefsOfClass(video_file, 1)))
        \o (IF Len(RefsOfClass(video_file, 1)) > 0
            THEN <<Lit("-disposition:a:0"), Lit("default")>> ELSE <<>>)
        \o (IF Len(RefsOfClass(video_file, 2)) > 0
            THEN <<Lit("-disposition:s:0"), Lit("default")>> ELSE <<>>)
        \o CodecSegment \o <<Destination(video_file)>>

\* C30: the command of every task is the one that the listing of the input
\* folder, the reports of the probes and encoding_sub determine, so that a
\* run with the merge disabled records the command a live run executes, and
\* the options of the log and of the two saved files change no argument.
C30_CommandSameDryOrLive ==
    \A t \in BuiltTasks : t.cmd_args = ReferenceCommand(video_files[t.task_id])

\* A live run with the raw merge log and the JSON file asked for has recorded
\* a task with an audio file.
C30_Witness ==
    /\ pc = "done"
    /\ disable_ffmpeg_merge = FALSE
    /\ write_ffmpeg_log /\ save_json_file
    /\ \E t \in Range(result.task) : Len(t.input_files) = 2 /\ Len(MapArgsOf(t)) = 3

====
